---- MODULE Spec2Model ----
(***************************************************************************)
(* A model of alpkit's flat key/value decoding engine                      *)
(* (internal/serde_key_value.rs) and of the dependency algebra             *)
(* (dependency.rs).                                                        *)
(*                                                                         *)
(* Text is modelled as a sequence of one-character strings, so that        *)
(* parsing and formatting are computed character by character.  Record     *)
(* keys are atomic strings; only their equality and their byte-wise order  *)
(* matter to the decoder.                                                  *)
(***************************************************************************)
EXTENDS Integers, Sequences, FiniteSets, TLC

\* Longest pair stream handed to the decoder.
MaxPairs == 3

(***************************************************************************)
(* Results: Ok(val) / Err(err).  Both shapes carry the same fields, so     *)
(* that two results can always be compared.                                *)
(***************************************************************************)
NoErr == [kind |-> "none", field |-> "", source |-> <<>>]
Ok(v) == [ok |-> TRUE, val |-> v, err |-> NoErr]
Err(e) == [ok |-> FALSE, val |-> <<>>, err |-> e]

\* enum Error (serde_key_value.rs:10-24)
MissingField(field) == [kind |-> "MissingField", field |-> field, source |-> <<>>]
InvalidField(source, field) == [kind |-> "InvalidField", field |-> field, source |-> source]
Other(msg) == [kind |-> "Other", field |-> "", source |-> msg]
Internal(source) == [kind |-> "Internal", field |-> "", source |-> source]

\* impl de::Error for Error: custom (serde_key_value.rs:27-29)
custom(msg) == Other(msg)

\* Mutant: missing_field is left to serde's default, which goes through custom().
missing_field_default(field) == custom(<<"missing field", field>>)

\* impl de::Error for Error: missing_field (serde_key_value.rs:31-33)
missing_field(field) == MissingField(field)

\* de::Error::duplicate_field is not overridden, serde's default goes
\* through custom().
duplicate_field(field) == custom(<<"duplicate field", field>>)

\* de::Error::invalid_type is not overridden either.
invalid_type(unexp, exp) == custom(<<"invalid type", unexp, exp>>)

(***************************************************************************)
(* The target record.  The field shapes are those of the record the        *)
(* decoder is tested with (StructA), in its declaration order: a required  *)
(* integer, a required and a defaulted list of strings and an optional     *)
(* integer.  "other" is a key that is no field of the record.              *)
(***************************************************************************)
Fields == <<"f_i64", "vec_string", "vec_string_def", "opt_u16">>

FieldSet == {Fields[i] : i \in 1..Len(Fields)}

\* shape: scalar | seq | option;  elem: string | i64 | u16;  default: #[serde(default)]
Schema ==
    [f \in FieldSet |->
        CASE f = "f_i64"          -> [shape |-> "scalar", elem |-> "i64",    default |-> FALSE]
          [] f = "vec_string"     -> [shape |-> "seq",    elem |-> "string", default |-> FALSE]
          [] f = "vec_string_def" -> [shape |-> "seq",    elem |-> "string", default |-> TRUE]
          [] f = "opt_u16"        -> [shape |-> "option", elem |-> "u16",    default |-> FALSE]]

UnknownKeys == {"other"}

Keys == FieldSet \cup UnknownKeys

\* The keys of the records decoded, in the byte-wise order of str::cmp.
KeyOrder ==
    <<"conflicts", "depends", "f_i64", "install_if", "opt_u16", "other", "pkgname",
      "vec_string", "vec_string_def">>

KeyRank(k) == CHOOSE i \in 1..Len(KeyOrder) : KeyOrder[i] = k

\* Values a producer may supply: one that parses as an integer, one that does not.
Values == {<<"7">>, <<"x">>}

Pair == Keys \X Values

PairSeqs == UNION {[1..n -> Pair] : n \in 0..MaxPairs}

(***************************************************************************)
(* Scalar coercion: str::parse for the integer family.                     *)
(***************************************************************************)
Digits == {"0", "1", "2", "3", "4", "5", "6", "7", "8", "9"}

DigitVal(c) ==
    CASE c = "0" -> 0 [] c = "1" -> 1 [] c = "2" -> 2 [] c = "3" -> 3 [] c = "4" -> 4
      [] c = "5" -> 5 [] c = "6" -> 6 [] c = "7" -> 7 [] c = "8" -> 8 [] c = "9" -> 9

RECURSIVE DigitsValue(_, _)
DigitsValue(s, acc) ==
    IF s = <<>> THEN acc ELSE DigitsValue(Tail(s), acc * 10 + DigitVal(Head(s)))

\* <i64 | u16>::from_str: an optional sign ('-' only for a signed type), then
\* decimal digits; the error is a ParseIntError with its kind's message.  (The
\* value strings of the model are too short to overflow an i64.)
ParseInt(ty, s) ==
    LET signed == ty = "i64"
        hasSign == s # <<>> /\ (Head(s) = "+" \/ (signed /\ Head(s) = "-"))
        body == IF hasSign THEN Tail(s) ELSE s
        neg == hasSign /\ Head(s) = "-"
    IN  IF s = <<>> THEN Err(<<"cannot parse integer from empty string">>)
        ELSE IF body = <<>> \/ \E i \in 1..Len(body) : body[i] \notin Digits
            THEN Err(<<"invalid digit found in string">>)
        ELSE IF ty = "u16" /\ DigitsValue(body, 0) > 65535
            THEN Err(<<"number too large to fit in target type">>)
        ELSE Ok(IF neg THEN 0 - DigitsValue(body, 0) ELSE DigitsValue(body, 0))

(***************************************************************************)
(* Deserializers.  Value(s) is the decoder's own wrapper of one value      *)
(* string, Str(s) is serde's plain StrDeserializer, SeqDe(items) is        *)
(* serde's SeqDeserializer over the items.                                 *)
(***************************************************************************)
ValueDe(s) == [de |-> "Value", s |-> s, items |-> <<>>]
StrDe(s) == [de |-> "Str", s |-> s, items |-> <<>>]
SeqDe(items) == [de |-> "Seq", s |-> <<>>, items |-> items]

\* forward_parsed_values!: Value::deserialize_<int> parses the string and wraps
\* the parse error in Error::Internal.
ForwardParsedValue(ty, s) ==
    LET r == ParseInt(ty, s)
    IN  IF r.ok THEN r ELSE Err(Internal(r.err))

\* Mutant: a scalar visitor takes the first value of a sequence.
DeserializeScalarFirst(ty, d) ==
    IF d.de = "Seq" THEN ForwardParsedValue(ty, d.items[1].s)
    ELSE IF ty = "string" THEN Ok(d.s)
    ELSE IF d.de = "Value" THEN ForwardParsedValue(ty, d.s)
    ELSE Err(invalid_type("string", ty))

\* T::deserialize for a scalar T (String or an integer) from deserializer d.
\* A string visitor accepts a str from either string deserializer; an integer
\* visitor only accepts what Value parsed; no scalar visitor accepts a sequence.
DeserializeScalar(ty, d) ==
    IF d.de = "Seq" THEN Err(invalid_type("sequence", ty))
    ELSE IF ty = "string" THEN Ok(d.s)
    ELSE IF d.de = "Value" THEN ForwardParsedValue(ty, d.s)
    ELSE Err(invalid_type("string", ty))

\* VecVisitor::visit_seq: the elements in order, the first failure aborts.
RECURSIVE VisitSeq(_, _, _)
VisitSeq(ty, items, acc) ==
    IF items = <<>> THEN Ok(acc)
    ELSE LET r == DeserializeScalar(ty, Head(items))
         IN  IF r.ok THEN VisitSeq(ty, Tail(items), Append(acc, r.val)) ELSE r

\* Value::deserialize_seq: a lone value is handed to the visitor as a
\* one-element sequence of plain strings.
ValueDeserializeSeq(s) == <<StrDe(s)>>

\* Vec<T>::deserialize from deserializer d.
DeserializeVec(ty, d) ==
    CASE d.de = "Value" -> VisitSeq(ty, ValueDeserializeSeq(d.s), <<>>)
      [] d.de = "Seq"   -> VisitSeq(ty, d.items, <<>>)
      [] OTHER          -> Err(invalid_type("string", "a sequence"))

\* Option<T>::deserialize: Value::deserialize_option is visit_some(self); an
\* option is <<>> (None) or <<v>> (Some(v)).
DeserializeOption(ty, d) ==
    IF d.de = "Value"
        THEN LET r == DeserializeScalar(ty, d) IN IF r.ok THEN Ok(<<r.val>>) ELSE r
        ELSE Err(invalid_type(IF d.de = "Seq" THEN "sequence" ELSE "string", "option"))

\* The seed the derived visitor passes to next_value for field f; an unknown
\* key is read as IgnoredAny, which accepts anything.
Deserialize(f, d) ==
    IF f \notin FieldSet THEN Ok(<<>>)
    ELSE CASE Schema[f].shape = "scalar" -> DeserializeScalar(Schema[f].elem, d)
           [] Schema[f].shape = "seq"    -> DeserializeVec(Schema[f].elem, d)
           [] Schema[f].shape = "option" -> DeserializeOption(Schema[f].elem, d)

(***************************************************************************)
(* KeyValueDeserializer: MapAccess over the peekable pair stream.          *)
(***************************************************************************)
None == "__none"

\* The derived field identifier: a key that names no field is ignored.
Ignore == "__ignore"

FieldIdent(key) == IF key \in FieldSet THEN key ELSE Ignore

\* next_key_seed: peeks at the next pair and hands its key to the field
\* identifier; None at the end of the stream.  Consumes nothing.
next_key_seed(inp) == IF inp = <<>> THEN None ELSE FieldIdent(inp[1][1])

\* The while-let loop of next_value_seed: how many of the pairs that follow
\* carry the key, up to the first pair that does not (Peekable::next_if).
RECURSIVE RunLen(_, _)
RunLen(rest, key) ==
    IF rest # <<>> /\ rest[1][1] = key THEN 1 + RunLen(Tail(rest), key) ELSE 0

\* Mutant: the value of the pair taken first is not pushed.
CollectValuesSkipFirst(inp) ==
    LET n == RunLen(Tail(inp), inp[1][1])
    IN  [i \in 1..n |-> ValueDe(inp[i + 1][2])]

\* The values next_value_seed collects: the value of the pair it took, then
\* those of the run that follows, in stream order.
CollectValues(inp) ==
    LET n == RunLen(Tail(inp), inp[1][1])
    IN  [i \in 1..(n + 1) |-> ValueDe(inp[i][2])]

\* Mutant: the run is read without being taken off the stream.
RemainingNotAdvanced(inp) == inp

\* What next_value_seed leaves in the stream.
Remaining(inp) ==
    LET n == RunLen(Tail(inp), inp[1][1])
    IN  SubSeq(inp, n + 2, Len(inp))

\* Mutant: only the message errors are rewrapped, Internal passes.
RewrapErrorOtherOnly(e, key) ==
    IF e.kind = "Other" THEN InvalidField(e.source, key) ELSE e

\* The map_err of next_value_seed: the generic errors are rewrapped to name
\* the key, anything else passes.
RewrapError(e, key) ==
    CASE e.kind = "Internal" -> InvalidField(e.source, key)
      [] e.kind = "Other"    -> InvalidField(e.source, key)
      [] OTHER               -> e

\* self.input.next(): the stream behind the pair next_value_seed takes.
TakeNext(inp) == Tail(inp)

\* next_value_seed for a non-empty stream and the seed of field f: a lone
\* pair is deserialized from Value, two or more adjacent pairs of one key
\* from a SeqDeserializer of Values.
next_value_seed(inp, f) ==
    LET key == inp[1][1]
        rest == TakeNext(inp)
        lone == (IF rest = <<>> THEN None ELSE rest[1][1]) # key
        r == IF lone THEN Deserialize(f, ValueDe(inp[1][2]))
                     ELSE Deserialize(f, SeqDe(CollectValues(inp)))
    IN  [input |-> IF lone THEN rest ELSE Remaining(inp),
         res   |-> IF r.ok THEN r ELSE Err(RewrapError(r.err, key))]

(***************************************************************************)
(* The visitor #[derive(Deserialize)] generates for the record: one        *)
(* Option per field, filled entry by entry, then the record is built in    *)
(* declaration order.                                                      *)
(***************************************************************************)
EmptyFields == [f \in FieldSet |-> <<>>]

\* serde's missing_field(): an Option field becomes None, any other field
\* without #[serde(default)] is an error.
Required(f) == Schema[f].shape # "option" /\ ~Schema[f].default

RECURSIVE FirstMissing(_, _)
FirstMissing(flds, i) ==
    IF i > Len(Fields) THEN None
    ELSE IF flds[Fields[i]] = <<>> /\ Required(Fields[i]) THEN Fields[i]
    ELSE FirstMissing(flds, i + 1)

\* The value of a field no pair was seen for: None or Default::default().
Absent(f) == <<>>

\* The end of visit_map.
BuildRecord(flds) ==
    IF FirstMissing(flds, 1) # None THEN Err(missing_field(FirstMissing(flds, 1)))
    ELSE Ok([f \in FieldSet |-> IF flds[f] = <<>> THEN Absent(f) ELSE flds[f][1]])

\* visit_map as a whole.
RECURSIVE visit_map(_, _)
visit_map(inp, flds) ==
    LET f == next_key_seed(inp)
    IN  IF f = None THEN BuildRecord(flds)
        ELSE IF f # Ignore /\ flds[f] # <<>> THEN Err(duplicate_field(f))
        ELSE LET nv == next_value_seed(inp, f)
             IN  IF ~nv.res.ok THEN nv.res
                 ELSE visit_map(nv.input,
                                IF f = Ignore THEN flds
                                ELSE [flds EXCEPT ![f] = <<nv.res.val>>])

\* Mutant: an element goes in front of the elements with an equal key.
RECURSIVE InsertByKeyUnstable(_, _)
InsertByKeyUnstable(sorted, kv) ==
    IF sorted = <<>> THEN <<kv>>
    ELSE IF KeyRank(Head(sorted)[1]) < KeyRank(kv[1])
        THEN <<Head(sorted)>> \o InsertByKeyUnstable(Tail(sorted), kv)
        ELSE <<kv>> \o sorted

\* Mutant: the pairs are decoded unsorted.
NoSort(ps) == ps

\* Vec::sort_by_key is a stable sort: an element goes behind every element
\* whose key is not greater.
RECURSIVE InsertByKey(_, _)
InsertByKey(sorted, kv) ==
    IF sorted = <<>> THEN <<kv>>
    ELSE IF KeyRank(Head(sorted)[1]) <= KeyRank(kv[1])
        THEN <<Head(sorted)>> \o InsertByKey(Tail(sorted), kv)
        ELSE <<kv>> \o sorted

RECURSIVE SortFrom(_, _)
SortFrom(ps, acc) ==
    IF ps = <<>> THEN acc ELSE SortFrom(Tail(ps), InsertByKey(acc, Head(ps)))

sort_by_key(ps) == SortFrom(ps, <<>>)

\* Mutant: the ordered entry point regroups the pairs by key.
OrderedInputSorted(ps) == sort_by_key(ps)

\* from_ordered_pairs hands the pairs to the deserializer as they come.
OrderedInput(ps) == ps

\* from_ordered_pairs
from_ordered_pairs(ps) == visit_map(OrderedInput(ps), EmptyFields)

\* from_pairs
from_pairs(ps) == from_ordered_pairs(sort_by_key(ps))

(***************************************************************************)
(* The dependency algebra (dependency.rs).                                 *)
(*                                                                         *)
(* An Option is a sequence: <<>> for None, <<x>> for Some(x).              *)
(* An Op is the set of its flags; the named combinations are unions.       *)
(***************************************************************************)
NoneV == <<>>

Some(x) == <<x>>

\* struct ConstraintParseError(String)
ConstraintParseError(s) == [kind |-> "ConstraintParseError", field |-> "", source |-> s]

\* enum Op
Equal == {"Equal"}

Less == {"Less"}

Greater == {"Greater"}

Fuzzy == {"Fuzzy"}

Checksum == Less \cup Greater

\* Op::all()
Op_all == Equal \cup Less \cup Greater \cup Fuzzy

Op_Any == Op_all

\* Op::none()
Op_none == {}

\* fn is_op
is_op(c) == c \in {"<", ">", "=", "~"}

\* str::find: the first (1-based) of the positions of s whose character
\* satisfies the pattern, 0 when there is none.
Find(hits) ==
    IF hits = {} THEN 0 ELSE CHOOSE i \in hits : \A j \in hits : i <= j

\* str::split_at(mid), mid being the 1-based position of the first character
\* of the second half.
SplitAt(s, mid) == <<SubSeq(s, 1, mid - 1), SubSeq(s, mid, Len(s))>>

WhiteSpace == {" ", "\t"}

RECURSIVE TrimStart(_)
TrimStart(s) ==
    IF s # <<>> /\ s[1] \in WhiteSpace THEN TrimStart(Tail(s)) ELSE s

RECURSIVE TrimEnd(_)
TrimEnd(s) ==
    IF s # <<>> /\ s[Len(s)] \in WhiteSpace
      THEN TrimEnd(SubSeq(s, 1, Len(s) - 1))
      ELSE s

\* str::trim
Trim(s) == TrimEnd(TrimStart(s))

\* Mutant: '~' sets the Fuzzy flag alone.
OpCharFlagsFuzzyOnly(c) ==
    CASE c = "=" -> Some(Equal)
      [] c = "<" -> Some(Less)
      [] c = ">" -> Some(Greater)
      [] c = "~" -> Some(Fuzzy)
      [] c = "*" -> Some(Op_Any)
      [] OTHER   -> NoneV

\* Op::from_str: the flags of one character, <<>> for any other character.
OpCharFlags(c) ==
    CASE c = "=" -> Some(Equal)
      [] c = "<" -> Some(Less)
      [] c = ">" -> Some(Greater)
      [] c = "~" -> Some(Fuzzy \cup Equal)
      [] c = "*" -> Some(Op_Any)
      [] OTHER   -> NoneV

RECURSIVE OpFold(_, _, _)
OpFold(s, i, flags) ==
    IF i > Len(s) THEN Ok(flags)
    ELSE IF OpCharFlags(s[i]) = NoneV THEN Err(ConstraintParseError(s))
    ELSE OpFold(s, i + 1, flags \cup OpCharFlags(s[i])[1])

\* Mutant: the length of the text is not bounded.
Op_from_str_any_length(s) ==
    IF s = <<>> THEN Err(ConstraintParseError(s)) ELSE OpFold(s, 1, Op_none)

\* impl FromStr for Op
Op_from_str(s) ==
    IF s = <<>> \/ Len(s) > 2
      THEN Err(ConstraintParseError(s))
      ELSE OpFold(s, 1, Op_none)

\* impl Display for Op
Op_fmt(op) ==
    IF op = Op_all THEN <<"*">>
    ELSE (IF Fuzzy \subseteq op THEN <<"~">> ELSE <<>>)
         \o (IF Greater \subseteq op THEN <<">">> ELSE <<>>)
         \o (IF Less \subseteq op THEN <<"<">> ELSE <<>>)
         \o (IF Equal \subseteq op /\ ~(Fuzzy \subseteq op) THEN <<"=">> ELSE <<>>)

\* Constraint::new
Constraint(op, version) == [op |-> op, version |-> version]

\* impl FromStr for Constraint
Constraint_from_str(s) ==
    LET mid == Find({i \in 1..Len(s) : ~is_op(s[i])})
    IN  IF mid = 0 THEN Err(ConstraintParseError(s))
        ELSE LET op      == Trim(SplitAt(s, mid)[1])
                 version == Trim(SplitAt(s, mid)[2])
             IN  IF op = <<>> \/ version = <<>>
                   THEN Err(ConstraintParseError(s))
                 ELSE IF ~Op_from_str(op).ok THEN Op_from_str(op)
                 ELSE Ok(Constraint(Op_from_str(op).val, version))

\* impl Display for Constraint
Constraint_fmt(c) == Op_fmt(c.op) \o c.version

\* Some(Constraint::from_str(s)?)
SomeOk(r) == IF r.ok THEN Ok(Some(r.val)) ELSE r

\* struct Dependency
Dependency(name, constraint, conflict, repo_pin) ==
    [name |-> name, constraint |-> constraint, conflict |-> conflict,
     repo_pin |-> repo_pin]

\* impl FromStr for Dependency
Dependency_from_str(s) ==
    LET at       == Find({i \in 1..Len(s) : s[i] = "@"})
        body     == IF at = 0 THEN s ELSE SubSeq(s, 1, at - 1)
        repo_pin == IF at = 0 THEN NoneV ELSE Some(SubSeq(s, at + 1, Len(s)))
        mid      == Find({i \in 1..Len(body) : is_op(body[i])})
        raw      == IF mid = 0 THEN body ELSE SplitAt(body, mid)[1]
        parsed   == IF mid = 0 THEN Ok(NoneV)
                    ELSE SomeOk(Constraint_from_str(SplitAt(body, mid)[2]))
        conflict == raw # <<>> /\ raw[1] = "!"
        name     == IF conflict THEN Tail(raw) ELSE raw
    IN  IF ~parsed.ok THEN parsed
        ELSE Ok(Dependency(name, parsed.val, conflict, repo_pin))

\* impl Display for Dependency
Dependency_fmt(d) ==
    (IF d.conflict THEN <<"!">> ELSE <<>>)
    \o d.name
    \o (IF d.constraint # NoneV THEN Constraint_fmt(d.constraint[1]) ELSE <<>>)
    \o (IF d.repo_pin # NoneV THEN <<"@">> \o d.repo_pin[1] ELSE <<>>)

\* Mutant: the value "*" is parsed as a constraint like any other value.
from_key_value_star_parsed(key, value) ==
    LET stripped == IF value # <<>> /\ value[1] = "!" THEN Some(Tail(value)) ELSE NoneV
        conflict == stripped # NoneV
        parsed   == CASE stripped = Some(<<>>) -> Ok(NoneV)
                      [] stripped # NoneV /\ stripped # Some(<<>>) ->
                            SomeOk(Constraint_from_str(stripped[1]))
                      [] OTHER -> SomeOk(Constraint_from_str(value))
    IN  IF ~parsed.ok THEN parsed
        ELSE Ok(Dependency(key, parsed.val, conflict, NoneV))

\* KeyValueLike for Dependency: from_key_value
from_key_value(key, value) ==
    LET stripped == IF value # <<>> /\ value[1] = "!" THEN Some(Tail(value)) ELSE NoneV
        conflict == stripped # NoneV
        parsed   == CASE stripped = Some(<<>>) -> Ok(NoneV)
                      [] stripped # NoneV /\ stripped # Some(<<>>) ->
                            SomeOk(Constraint_from_str(stripped[1]))
                      [] stripped = NoneV /\ value = <<"*">> -> Ok(NoneV)
                      [] OTHER -> SomeOk(Constraint_from_str(value))
    IN  IF ~parsed.ok THEN parsed
        ELSE Ok(Dependency(key, parsed.val, conflict, NoneV))

\* KeyValueLike for Dependency: to_key_value
to_key_value(d) ==
    LET value == CASE d.constraint # NoneV /\ d.conflict ->
                        <<"!">> \o Op_fmt(d.constraint[1].op) \o <<" ">>
                                \o d.constraint[1].version
                   [] d.constraint # NoneV /\ ~d.conflict ->
                        Op_fmt(d.constraint[1].op) \o <<" ">>
                                \o d.constraint[1].version
                   [] d.constraint = NoneV /\ d.conflict -> <<"!">>
                   [] OTHER -> <<"*">>
    IN  <<d.name, value>>

(***************************************************************************)
(* One decode call, step by step.                                          *)
(*   api     the entry point called                                        *)
(*   pairs   the pairs the caller passed                                   *)
(*   input   KeyValueDeserializer::input, the pairs not yet consumed       *)
(*   field   the field identifier the last next_key_seed returned          *)
(*   fields  the visitor's per-field Options                               *)
(*   steps   the calls of next_value_seed so far                           *)
(*   took    the pairs the last next_value_seed call consumed              *)
(*   ticks   the steps of the decode so far                                *)
(*   result  what the call returned                                        *)
(*   pc      where the call stands                                         *)
(*                                                                         *)
(* One dependency round trip, step by step.                                *)
(*   dependency  the Dependency value encoded                              *)
(*   key_value   the pair to_key_value produced                            *)
(*   token   the text Display produced                                     *)
(*   decoded what from_key_value or from_str returned                      *)
(*   dpc     where the round trip stands                                   *)
(*                                                                         *)
(* One parse of a text, step by step.                                      *)
(*   text    the text handed to a parser                                   *)
(*   key     the key handed to from_key_value along with the text          *)
(*   parsed  what the parser returned                                      *)
(*   shown   the text Display produced for the parsed value                *)
(*   tpc     where the parse stands                                        *)
(*                                                                         *)
(* One collection of dependencies decoded from both of its shapes.         *)
(*   entries        the dependencies of the collection                     *)
(*   mapping        the entries of the mapping shape, name to value        *)
(*   sequence       the tokens of the sequence shape                       *)
(*   from_mapping   what the codec decoded from the mapping                *)
(*   from_sequence  what the codec decoded from the sequence               *)
(*                                                                         *)
(* One .PKGINFO text parsed.                                               *)
(*   lines    the lines of the text                                        *)
(*   kvs      the pairs PkgInfo::parse collected, or its syntax error      *)
(*   pkginfo  what PkgInfo::parse returned                                 *)
(*   kpc      where the parse stands                                       *)
(*                                                                         *)
(* One object of the library and the calls made on it.                     *)
(*   self   the fields of the object                                       *)
(*   args   the arguments of the call under way, or the input still to     *)
(*          be read                                                        *)
(*   ret    what the last call returned                                    *)
(*   log    what the calls have done so far that the object does not hold  *)
(*   cpc    where the calls stand                                          *)
(***************************************************************************)
VARIABLES api, pairs, input, field, fields, steps, took, ticks, result, pc,
          dependency, key_value, token, decoded, dpc,
          text, key, parsed, shown, tpc,
          entries, mapping, sequence, from_mapping, from_sequence,
          lines, kvs, pkginfo, kpc,
          self, args, ret, log, cpc

decVars == <<api, pairs, input, field, fields, steps, took, ticks, result, pc>>

depVars == <<dependency, key_value, token, decoded, dpc>>

txtVars == <<text, key, parsed, shown, tpc>>

codVars == <<entries, mapping, sequence, from_mapping, from_sequence>>

pkgVars == <<lines, kvs, pkginfo, kpc>>

callVars == <<self, args, ret, log, cpc>>

vars == <<decVars, depVars, txtVars, codVars, pkgVars, callVars>>

Pending == Err(NoErr)

\* No object is in use.
CallIdle ==
    /\ self = <<>>
    /\ args = <<>>
    /\ ret = Pending
    /\ log = <<>>
    /\ cpc = "idle"

\* No .PKGINFO text is being parsed.
PkgIdle ==
    /\ lines = <<>>
    /\ kvs = Pending
    /\ pkginfo = Pending
    /\ kpc = "idle"

\* No collection is being decoded.
CodIdle ==
    /\ entries = <<>>
    /\ mapping = NoneV
    /\ sequence = NoneV
    /\ from_mapping = Pending
    /\ from_sequence = Pending

\* No parse of a text is under way.
TxtIdle ==
    /\ text = <<>>
    /\ key = <<>>
    /\ parsed = Pending
    /\ shown = <<>>
    /\ tpc = "idle"

\* No dependency round trip is under way.
DepIdle ==
    /\ dependency = Dependency(<<"a">>, NoneV, FALSE, NoneV)
    /\ key_value = <<>>
    /\ token = <<>>
    /\ decoded = Pending
    /\ dpc = "idle"

\* No decode call is under way.
DecIdle ==
    /\ api = "from_pairs"
    /\ pairs = <<>>
    /\ input = <<>>
    /\ field = None
    /\ fields = EmptyFields
    /\ steps = 0
    /\ took = 0
    /\ ticks = 0
    /\ result = Pending
    /\ pc = "idle"

DecInit ==
    /\ api \in {"from_pairs", "from_ordered_pairs"}
    /\ pairs \in PairSeqs
    /\ input = <<>>
    /\ field = None
    /\ fields = EmptyFields
    /\ steps = 0
    /\ took = 0
    /\ ticks = 0
    /\ result = Pending
    /\ pc = "call"

\* from_pairs: sorts, then decodes.
CallFromPairs ==
    /\ pc = "call" /\ api = "from_pairs"
    /\ input' = OrderedInput(sort_by_key(pairs))
    /\ pc' = "next_key"
    /\ ticks' = ticks + 1
    /\ UNCHANGED <<api, pairs, field, fields, steps, took, result>>
    /\ UNCHANGED <<depVars, txtVars, codVars, pkgVars, callVars>>

\* from_ordered_pairs: decodes the pairs as they come.
CallFromOrderedPairs ==
    /\ pc = "call" /\ api = "from_ordered_pairs"
    /\ input' = OrderedInput(pairs)
    /\ pc' = "next_key"
    /\ ticks' = ticks + 1
    /\ UNCHANGED <<api, pairs, field, fields, steps, took, result>>
    /\ UNCHANGED <<depVars, txtVars, codVars, pkgVars, callVars>>

\* visit_map asks for the next key.
NextKey ==
    /\ pc = "next_key"
    /\ field' = next_key_seed(input)
    /\ pc' = IF next_key_seed(input) = None THEN "build" ELSE "next_value"
    /\ ticks' = ticks + 1
    /\ UNCHANGED <<api, pairs, input, fields, steps, took, result>>
    /\ UNCHANGED <<depVars, txtVars, codVars, pkgVars, callVars>>

\* visit_map: the field of the key was already filled.
DuplicateField ==
    /\ pc = "next_value"
    /\ field # Ignore /\ fields[field] # <<>>
    /\ result' = Err(duplicate_field(field))
    /\ pc' = "done"
    /\ ticks' = ticks + 1
    /\ UNCHANGED <<api, pairs, input, field, fields, steps, took>>
    /\ UNCHANGED <<depVars, txtVars, codVars, pkgVars, callVars>>

\* visit_map asks for the value of the key it just saw.
NextValue ==
    /\ pc = "next_value"
    /\ ~(field # Ignore /\ fields[field] # <<>>)
    /\ LET nv == next_value_seed(input, field)
       IN  /\ input' = nv.input
           /\ steps' = steps + 1
           /\ took' = Len(input) - Len(nv.input)
           /\ IF nv.res.ok
                THEN /\ fields' = IF field = Ignore THEN fields
                                  ELSE [fields EXCEPT ![field] = <<nv.res.val>>]
                     /\ pc' = "next_key"
                     /\ UNCHANGED result
                ELSE /\ result' = nv.res
                     /\ pc' = "done"
                     /\ UNCHANGED fields
    /\ ticks' = ticks + 1
    /\ UNCHANGED <<api, pairs, field>>
    /\ UNCHANGED <<depVars, txtVars, codVars, pkgVars, callVars>>

\* The stream is exhausted: visit_map builds the record.
Build ==
    /\ pc = "build"
    /\ result' = BuildRecord(fields)
    /\ pc' = "done"
    /\ ticks' = ticks + 1
    /\ UNCHANGED <<api, pairs, input, field, fields, steps, took>>
    /\ UNCHANGED <<depVars, txtVars, codVars, pkgVars, callVars>>

Init == DecInit /\ DepIdle /\ TxtIdle /\ CodIdle /\ PkgIdle /\ CallIdle

Next ==
    \/ CallFromPairs
    \/ CallFromOrderedPairs
    \/ NextKey
    \/ DuplicateField
    \/ NextValue
    \/ Build

Spec == Init /\ [][Next]_vars

\* The decode runs to completion once called: nothing it waits for.
FairSpec == Spec /\ WF_vars(Next)

(***************************************************************************)
(* The dependency values a round trip starts from: every combination of a  *)
(* name, a conflict flag, no constraint or one of the ten operators with a *)
(* version, and no or one repository pin.                                  *)
(***************************************************************************)
DepNames == {<<"a">>, <<"a", "=">>}

Versions == {<<"1">>, <<"1", ".", "0">>}

RepoPins == {<<"e">>}

\* The operators written = ~ > >= ~> < <= ~< >< and *.
ValidOps ==
    {Equal, Equal \cup Fuzzy,
     Greater, Greater \cup Equal, Greater \cup Equal \cup Fuzzy,
     Less, Less \cup Equal, Less \cup Equal \cup Fuzzy,
     Checksum, Op_Any}

Constraints == {Constraint(op, v) : op \in ValidOps, v \in Versions}

Dependencies ==
    {Dependency(n, c, x, p) :
        n \in DepNames,
        c \in {NoneV} \cup {Some(k) : k \in Constraints},
        x \in BOOLEAN,
        p \in {NoneV} \cup {Some(r) : r \in RepoPins}}

DepInit ==
    /\ dependency \in Dependencies
    /\ key_value = <<>>
    /\ token = <<>>
    /\ decoded = Pending
    /\ dpc = "start"
    /\ DecIdle
    /\ TxtIdle
    /\ CodIdle
    /\ PkgIdle
    /\ CallIdle

\* Dependency::to_key_value
DepToKeyValue ==
    /\ dpc = "start"
    /\ key_value' = to_key_value(dependency)
    /\ dpc' = "kv"
    /\ UNCHANGED <<dependency, token, decoded, decVars, txtVars, codVars, pkgVars, callVars>>

\* Dependency::from_key_value(key, value)
DepFromKeyValue ==
    /\ dpc = "kv"
    /\ decoded' = from_key_value(key_value[1], key_value[2])
    /\ dpc' = "from_kv"
    /\ UNCHANGED <<dependency, key_value, token, decVars, txtVars, codVars, pkgVars, callVars>>

\* Dependency::to_string (Display)
DepToString ==
    /\ dpc = "start"
    /\ token' = Dependency_fmt(dependency)
    /\ dpc' = "token"
    /\ UNCHANGED <<dependency, key_value, decoded, decVars, txtVars, codVars, pkgVars, callVars>>

\* Dependency::from_str(token)
DepFromStr ==
    /\ dpc = "token"
    /\ decoded' = Dependency_from_str(token)
    /\ dpc' = "from_str"
    /\ UNCHANGED <<dependency, key_value, token, decVars, txtVars, codVars, pkgVars, callVars>>

DepNext ==
    \/ DepToKeyValue
    \/ DepFromKeyValue
    \/ DepToString
    \/ DepFromStr

SpecDep == DepInit /\ [][DepNext]_vars

(***************************************************************************)
(* The texts handed to the parsers: every text of up to MaxTextLen         *)
(* characters of a small alphabet, the tokens put together from an         *)
(* optional '!', a name, an operator text, a version and a pin, and the    *)
(* texts the program's tests use.                                          *)
(***************************************************************************)
\* Longest text enumerated character by character.
MaxTextLen == 3

Chars == {"=", "<", ">", "~", "*", "?", " ", "1", "a", "!", "@"}

ShortTexts == UNION {[1..n -> Chars] : n \in 0..MaxTextLen}

\* The characters Op::from_str accepts.
OpChars == {"=", "<", ">", "~", "*"}

\* Longest run of operator characters in a token.
MaxOpLen == 3

OpTexts == UNION {[1..n -> OpChars] : n \in 0..MaxOpLen}

TokenTexts ==
    {b \o n \o o \o v \o p :
        b \in {<<>>, <<"!">>},
        n \in {<<>>, <<"a">>, <<"a", "-", "b">>},
        o \in OpTexts,
        v \in {<<>>, <<"1">>, <<" ", "1">>, <<"1", ".", "0">>},
        p \in {<<>>, <<"@">>, <<"@", "e">>}}

TestTexts ==
    {<<"r", "u", "b", "y", ">", "=", "3", ".", "0">>,
     <<"!", "s", "a", "m", "p", "l", "e", "-", "l", "e", "g", "a", "c", "y">>,
     <<"f", "o", "o", "@", "t", "e", "s", "t", "i", "n", "g">>,
     <<"1", ".", "2", ".", "3">>,
     <<"f", "o", "o">>,
     <<"=", " ", "1", ".", "2", ".", "3">>,
     <<"=", "1", ".", "2", ".", "3">>,
     <<">", "=", "1", ".", "2">>,
     <<"<", "=", " ", "1", ".", "2">>,
     <<"~", " ", "1", ".", "2">>,
     <<"!", ">", " ", "1", ".", "2", ".", "3">>,
     <<"<", "=", ">">>}

Texts == ShortTexts \cup TokenTexts \cup TestTexts

TextKeys == {<<"a">>, <<"!", "a", "@", "e">>}

TxtInit ==
    /\ text \in Texts
    /\ key = <<>>
    /\ parsed = Pending
    /\ shown = <<>>
    /\ tpc = "text"
    /\ DecIdle
    /\ DepIdle
    /\ CodIdle
    /\ PkgIdle
    /\ CallIdle

\* Op::from_str(text)
OpFromStr ==
    /\ tpc = "text"
    /\ parsed' = Op_from_str(text)
    /\ tpc' = "op"
    /\ UNCHANGED <<text, key, shown, decVars, depVars, codVars, pkgVars, callVars>>

\* op.to_string() for the operator parsed
OpToString ==
    /\ tpc = "op" /\ parsed.ok
    /\ shown' = Op_fmt(parsed.val)
    /\ tpc' = "op_shown"
    /\ UNCHANGED <<text, key, parsed, decVars, depVars, codVars, pkgVars, callVars>>

\* Constraint::from_str(text)
ConstraintFromStr ==
    /\ tpc = "text"
    /\ parsed' = Constraint_from_str(text)
    /\ tpc' = "constraint"
    /\ UNCHANGED <<text, key, shown, decVars, depVars, codVars, pkgVars, callVars>>

\* Dependency::from_str(text)
DependencyFromStr ==
    /\ tpc = "text"
    /\ parsed' = Dependency_from_str(text)
    /\ tpc' = "dependency"
    /\ UNCHANGED <<text, key, shown, decVars, depVars, codVars, pkgVars, callVars>>

\* Dependency::from_key_value(key, text)
DependencyFromKeyValue ==
    /\ tpc = "text"
    /\ \E k \in TextKeys :
        /\ key' = k
        /\ parsed' = from_key_value(k, text)
    /\ tpc' = "key_value"
    /\ UNCHANGED <<text, shown, decVars, depVars, codVars, pkgVars, callVars>>

TxtNext ==
    \/ OpFromStr
    \/ OpToString
    \/ ConstraintFromStr
    \/ DependencyFromStr
    \/ DependencyFromKeyValue

SpecTxt == TxtInit /\ [][TxtNext]_vars

(***************************************************************************)
(* The map/sequence codec (key_value_vec_map.rs) over Dependency.          *)
(***************************************************************************)
\* A self-describing deserializer positioned at a map of string entries.
MapDe(items) == [de |-> "Map", s |-> <<>>, items |-> items]

\* #[error("invalid version constraint: '{0}'")]
ConstraintParseError_fmt(e) == <<"invalid version constraint: '">> \o e.source \o <<"'">>

\* impl Deserialize for Dependency: a string, then Dependency::from_str with
\* its error turned into a message.
Dependency_deserialize(d) ==
    LET s == DeserializeScalar("string", d)
    IN  IF ~s.ok THEN s
        ELSE LET r == Dependency_from_str(s.val)
             IN  IF r.ok THEN r ELSE Err(custom(ConstraintParseError_fmt(r.err)))

\* Vec<Dependency>::deserialize over a sequence: the elements in order, the
\* first failure aborts.
RECURSIVE VecVisitor_visit_seq(_, _)
VecVisitor_visit_seq(items, vec) ==
    IF items = <<>> THEN Ok(vec)
    ELSE LET r == Dependency_deserialize(Head(items))
         IN  IF r.ok THEN VecVisitor_visit_seq(Tail(items), Append(vec, r.val)) ELSE r

\* KeyValueVecMapVisitor::visit_seq
KeyValueVecMapVisitor_visit_seq(items) == VecVisitor_visit_seq(items, <<>>)

\* Mutant: an entry goes in front of the entries decoded before it.
RECURSIVE KeyValueVecMapVisitor_visit_map_prepend(_, _)
KeyValueVecMapVisitor_visit_map_prepend(items, vec) ==
    IF items = <<>> THEN Ok(vec)
    ELSE LET r == from_key_value(Head(items)[1], Head(items)[2])
         IN  IF r.ok
               THEN KeyValueVecMapVisitor_visit_map_prepend(Tail(items), <<r.val>> \o vec)
               ELSE Err(custom(ConstraintParseError_fmt(r.err)))

\* KeyValueVecMapVisitor::visit_map: from_key_value entry by entry, pushed
\* in the order of the entries; the first failure aborts with its message.
RECURSIVE KeyValueVecMapVisitor_visit_map(_, _)
KeyValueVecMapVisitor_visit_map(items, vec) ==
    IF items = <<>> THEN Ok(vec)
    ELSE LET r == from_key_value(Head(items)[1], Head(items)[2])
         IN  IF r.ok
               THEN KeyValueVecMapVisitor_visit_map(Tail(items), Append(vec, r.val))
               ELSE Err(custom(ConstraintParseError_fmt(r.err)))

\* Mutant: the visitor does not accept a string (serde's default visit_str).
KeyValueVecMapVisitor_visit_str_default(v) ==
    Err(invalid_type("string", "sequence or map"))

\* KeyValueVecMapVisitor::visit_str: the string as a one-element sequence.
KeyValueVecMapVisitor_visit_str(v) == KeyValueVecMapVisitor_visit_seq(<<StrDe(v)>>)

\* key_value_vec_map::deserialize: deserialize_any hands the visitor what
\* the deserializer holds.  Value::deserialize_any forwards to the plain
\* string deserializer, which calls visit_str.
key_value_vec_map_deserialize(d) ==
    CASE d.de = "Map" -> KeyValueVecMapVisitor_visit_map(d.items, <<>>)
      [] d.de = "Seq" -> KeyValueVecMapVisitor_visit_seq(d.items)
      [] OTHER        -> KeyValueVecMapVisitor_visit_str(d.s)

(***************************************************************************)
(* The collections decoded from both shapes: no, one or two dependencies   *)
(* with distinct names, each with or without a conflict flag, a            *)
(* constraint of one of the ten operators and a repository pin.  One of    *)
(* the names ends in an operator character and one of the versions in the  *)
(* pin separator, which a mapping can carry as they are.                   *)
(***************************************************************************)
CodecNames == {<<"a">>, <<"b">>, <<"a", "=">>}

CodecVersions == {<<"1">>, <<"1", "@">>}

CodecEntries ==
    {Dependency(n, c, x, p) :
        n \in CodecNames,
        c \in {NoneV} \cup {Some(Constraint(op, v)) : op \in ValidOps, v \in CodecVersions},
        x \in BOOLEAN,
        p \in {NoneV} \cup {Some(r) : r \in RepoPins}}

EntryLists ==
    {<<>>} \cup {<<e>> : e \in CodecEntries}
           \cup {l \in CodecEntries \X CodecEntries : l[1].name # l[2].name}

CodInit ==
    /\ entries \in EntryLists
    /\ mapping = NoneV
    /\ sequence = NoneV
    /\ from_mapping = Pending
    /\ from_sequence = Pending
    /\ DecIdle
    /\ DepIdle
    /\ TxtIdle
    /\ PkgIdle
    /\ CallIdle

\* key_value_vec_map::serialize: one (key, value) entry per element.
EncodeMapping ==
    /\ mapping = NoneV
    /\ mapping' = Some([i \in 1..Len(entries) |-> to_key_value(entries[i])])
    /\ UNCHANGED <<entries, sequence, from_mapping, from_sequence,
                   decVars, depVars, txtVars, pkgVars, callVars>>

\* The sequence shape: one token (Display) per element.
EncodeSequence ==
    /\ sequence = NoneV
    /\ sequence' = Some([i \in 1..Len(entries) |-> Dependency_fmt(entries[i])])
    /\ UNCHANGED <<entries, mapping, from_mapping, from_sequence,
                   decVars, depVars, txtVars, pkgVars, callVars>>

\* key_value_vec_map::deserialize from the mapping.
DecodeMapping ==
    /\ mapping # NoneV
    /\ from_mapping = Pending
    /\ from_mapping' = key_value_vec_map_deserialize(MapDe(mapping[1]))
    /\ UNCHANGED <<entries, mapping, sequence, from_sequence,
                   decVars, depVars, txtVars, pkgVars, callVars>>

\* key_value_vec_map::deserialize from the sequence of tokens.
DecodeSequence ==
    /\ sequence # NoneV
    /\ from_sequence = Pending
    /\ from_sequence' =
          key_value_vec_map_deserialize(
              SeqDe([i \in 1..Len(sequence[1]) |-> StrDe(sequence[1][i])]))
    /\ UNCHANGED <<entries, mapping, sequence, from_mapping,
                   decVars, depVars, txtVars, pkgVars, callVars>>

CodNext ==
    \/ EncodeMapping
    \/ EncodeSequence
    \/ DecodeMapping
    \/ DecodeSequence

SpecCod == CodInit /\ [][CodNext]_vars

(***************************************************************************)
(* PkgInfo (package/pkginfo.rs): the .PKGINFO text, the pairs collected    *)
(* from its lines and the record decoded from them.  Of the record's       *)
(* fields the model keeps one required string (pkgname) and the three      *)
(* collections PkgInfo::parse treats specially or fills from `depend`;     *)
(* every other key of a line is one the record does not know.              *)
(***************************************************************************)
\* Mutant: the line number is the 0-based index of the enumeration.
SyntaxZeroBased(lno, line) == [kind |-> "Syntax", field |-> ToString(lno - 1), source |-> line]

\* enum PkgInfoError: Syntax(line number, line); Decode is transparent, the
\* decoder's error is kept as it is.
Syntax(lno, line) == [kind |-> "Syntax", field |-> ToString(lno), source |-> line]

\* The keys of the lines, as their texts.
KeyText ==
    [pkgname    |-> <<"p", "k", "g", "n", "a", "m", "e">>,
     depend     |-> <<"d", "e", "p", "e", "n", "d">>,
     depends    |-> <<"d", "e", "p", "e", "n", "d", "s">>,
     conflicts  |-> <<"c", "o", "n", "f", "l", "i", "c", "t", "s">>,
     install_if |-> <<"i", "n", "s", "t", "a", "l", "l", "_", "i", "f">>]

\* The key a text spells; every text that spells none of the keys above
\* stands for a key the record does not know.
KeyOf(chars) ==
    IF \E k \in DOMAIN KeyText : KeyText[k] = chars
      THEN CHOOSE k \in DOMAIN KeyText : KeyText[k] = chars
      ELSE "other"

\* str::split_once(" = "): the text before and after the first " = ".
split_once(line) ==
    LET at == Find({i \in 1..(Len(line) - 2) :
                      line[i] = " " /\ line[i + 1] = "=" /\ line[i + 2] = " "})
    IN  IF at = 0 THEN NoneV
        ELSE Some(<<SubSeq(line, 1, at - 1), SubSeq(line, at + 3, Len(line))>>)

\* parse_key_value: the items of the iterator, in line order.  Empty lines
\* and lines starting with '#' yield nothing, a line with " = " its pair
\* and any other line a Syntax error with its 1-based line number.
RECURSIVE parse_key_value(_, _)
parse_key_value(ls, lno) ==
    IF lno > Len(ls) THEN <<>>
    ELSE LET line == ls[lno]
             item == split_once(line)
         IN  IF line = <<>> \/ line[1] = "#" THEN parse_key_value(ls, lno + 1)
             ELSE IF item # NoneV
               THEN <<Ok(<<KeyOf(item[1][1]), item[1][2]>>)>> \o parse_key_value(ls, lno + 1)
               ELSE <<Err(Syntax(lno, line))>> \o parse_key_value(ls, lno + 1)

\* str::split_ascii_whitespace
RECURSIVE split_ascii_whitespace(_)
split_ascii_whitespace(s) ==
    LET t == TrimStart(s)
        end == Find({i \in 1..Len(t) : t[i] \in WhiteSpace})
    IN  IF t = <<>> THEN <<>>
        ELSE IF end = 0 THEN <<t>>
        ELSE <<SubSeq(t, 1, end - 1)>> \o split_ascii_whitespace(SubSeq(t, end, Len(t)))

\* The pair pushed for a `depend` line: a value starting with '!' goes to
\* conflicts without the '!', any other to depends.
DependPair(val) ==
    IF val # <<>> /\ val[1] = "!" THEN <<"conflicts", Tail(val)>> ELSE <<"depends", val>>

\* The closure of the try_fold in PkgInfo::parse: what one item adds to acc.
FoldItem(acc, kv) ==
    CASE kv[1] = "install_if" ->
            acc \o [i \in 1..Len(split_ascii_whitespace(kv[2])) |->
                      <<kv[1], split_ascii_whitespace(kv[2])[i]>>]
      [] kv[1] = "depend" -> Append(acc, DependPair(kv[2]))
      [] OTHER -> Append(acc, kv)

\* The try_fold of PkgInfo::parse: the pairs of all items, or the first
\* error among them.
RECURSIVE try_fold(_, _)
try_fold(items, acc) ==
    IF items = <<>> THEN Ok(acc)
    ELSE IF ~Head(items).ok THEN Head(items)
    ELSE try_fold(Tail(items), FoldItem(acc, Head(items).val))

\* The fields of the record, in declaration order.
PkgFields == <<"pkgname", "depends", "conflicts", "install_if">>

PkgFieldSet == {PkgFields[i] : i \in 1..Len(PkgFields)}

\* The derived field identifier: #[serde(alias = "depend")] names depends
\* too; a key that names no field is ignored.
PkgFieldIdent(k) ==
    IF k = "depend" THEN "depends" ELSE IF k \in PkgFieldSet THEN k ELSE Ignore

\* The seed of field f: String for pkgname, Dependencies for the
\* collections (#[serde(transparent)] over the codec), IgnoredAny for an
\* unknown key.
PkgDeserialize(f, d) ==
    CASE f = Ignore    -> Ok(<<>>)
      [] f = "pkgname" -> DeserializeScalar("string", d)
      [] OTHER         -> key_value_vec_map_deserialize(d)

\* The map_err of next_value_seed applied to the seed's result r.
PkgRewrap(r, k) == IF r.ok THEN r ELSE Err(RewrapError(r.err, k))

\* KeyValueDeserializer::next_value_seed with the seed of PkgInfo's field f:
\* a lone pair is deserialized from Value, two or more adjacent pairs of one
\* key from a SeqDeserializer of Values.
PkgInfo_next_value_seed(inp, f) ==
    LET k == inp[1][1]
        rest == TakeNext(inp)
        lone == (IF rest = <<>> THEN None ELSE rest[1][1]) # k
    IN  [input |-> IF lone THEN rest ELSE Remaining(inp),
         res   |-> PkgRewrap(PkgDeserialize(f, IF lone THEN ValueDe(inp[1][2])
                                                       ELSE SeqDe(CollectValues(inp))), k)]

PkgEmptyFields == [f \in PkgFieldSet |-> <<>>]

\* The end of the derived visit_map: pkgname is required, the collections
\* are #[serde(default)].
PkgBuildRecord(flds) ==
    IF flds["pkgname"] = <<>> THEN Err(missing_field("pkgname"))
    ELSE  Ok([f \in PkgFieldSet |-> IF flds[f] = <<>> THEN <<>> ELSE flds[f][1]])

\* The visit_map #[derive(Deserialize)] generates for PkgInfo: the loop
\* over the entries (PkgInfo_visit_map) and what it does with the value nv
\* read for field f (PkgInfo_visit_entry).
RECURSIVE PkgInfo_visit_map(_, _)
PkgInfo_visit_entry(nv, f, flds) ==
    IF ~nv.res.ok THEN nv.res
    ELSE PkgInfo_visit_map(nv.input,
                           IF f = Ignore THEN flds ELSE [flds EXCEPT ![f] = <<nv.res.val>>])

PkgInfo_visit_field(inp, f, flds) ==
    IF f = None THEN PkgBuildRecord(flds)
    ELSE IF f # Ignore /\ flds[f] # <<>> THEN Err(duplicate_field(f))
    ELSE PkgInfo_visit_entry(PkgInfo_next_value_seed(inp, f), f, flds)

PkgInfo_visit_map(inp, flds) ==
    PkgInfo_visit_field(inp, IF inp = <<>> THEN None ELSE PkgFieldIdent(inp[1][1]), flds)

\* serde_key_value::from_pairs::<PkgInfo>
PkgInfo_from_pairs(ps) == PkgInfo_visit_map(OrderedInput(sort_by_key(ps)), PkgEmptyFields)

(***************************************************************************)
(* The .PKGINFO texts: up to MaxLines lines, each one of the lines below.  *)
(***************************************************************************)
MaxLines == 3

Line(k, val) == k \o <<" ", "=", " ">> \o val

PkgLines ==
    {Line(KeyText["pkgname"], <<"p">>),
     Line(KeyText["depend"], <<"a">>),
     Line(KeyText["depend"], <<"b", ">", "1">>),
     Line(KeyText["depend"], <<"!", "b">>),
     Line(KeyText["depend"], <<"!", "!", "b">>),
     Line(KeyText["depend"], <<"a", "<", "=", ">", "1">>),
     Line(KeyText["depends"], <<"!", "a">>),
     Line(KeyText["install_if"], <<"a", " ", "b">>),
     Line(<<"x">>, <<"1">>),
     <<"#", " ", "c">>,
     <<>>,
     <<"b", "a", "d">>}

PkgTexts == UNION {[1..n -> PkgLines] : n \in 0..MaxLines}

PkgInit ==
    /\ lines \in PkgTexts
    /\ kvs = Pending
    /\ pkginfo = Pending
    /\ kpc = "text"
    /\ DecIdle
    /\ DepIdle
    /\ TxtIdle
    /\ CodIdle
    /\ CallIdle

\* PkgInfo::parse, the try_fold over parse_key_value(s).
CollectPairs ==
    /\ kpc = "text"
    /\ kvs' = try_fold(parse_key_value(lines, 1), <<>>)
    /\ kpc' = "pairs"
    /\ UNCHANGED <<lines, pkginfo, decVars, depVars, txtVars, codVars, callVars>>

\* PkgInfo::parse, bail!(e): the first error item ends the parse.
Bail ==
    /\ kpc = "pairs"
    /\ ~kvs.ok
    /\ pkginfo' = kvs
    /\ kpc' = "done"
    /\ UNCHANGED <<lines, kvs, decVars, depVars, txtVars, codVars, callVars>>

\* PkgInfo::parse, and_then(|pairs| serde_key_value::from_pairs(pairs)).
DecodePairs ==
    /\ kpc = "pairs"
    /\ kvs.ok
    /\ pkginfo' = PkgInfo_from_pairs(kvs.val)
    /\ kpc' = "done"
    /\ UNCHANGED <<lines, kvs, decVars, depVars, txtVars, codVars, callVars>>

PkgNext ==
    \/ CollectPairs
    \/ Bail
    \/ DecodePairs

SpecPkg == PkgInit /\ [][PkgNext]_vars

(***************************************************************************)
(* ApkbuildReader (apkbuild.rs): the architectures `arch` resolves to.     *)
(* A token of an arch value is the sequence of its leading '!' characters  *)
(* followed by the rest of its text, so <<"!", "x86">> is "!x86" and an    *)
(* architecture name is a one-element sequence.                            *)
(***************************************************************************)
\* pub const ARCH_ALL
ARCH_ALL ==
    << <<"aarch64">>, <<"armhf">>, <<"armv7">>, <<"ppc64le">>, <<"riscv64">>,
       <<"s390x">>, <<"x86">>, <<"x86_64">> >>

\* The names an arch value may hold, in the byte-wise order of str::cmp.
ArchOrder ==
    <<"aarch64", "all", "armhf", "armv7", "foo", "noarch", "ppc64le", "riscv64",
      "s390x", "x86", "x86_64">>

ArchRank(a) == CHOOSE i \in 1..Len(ArchOrder) : ArchOrder[i] = a[1]

\* Vec::retain(|arch| arch != x)
RECURSIVE Retain(_, _)
Retain(v, x) ==
    IF v = <<>> THEN <<>>
    ELSE (IF Head(v) # x THEN <<Head(v)>> ELSE <<>>) \o Retain(Tail(v), x)

\* Vec::sort, one insertion: behind every element that is not greater.
RECURSIVE SortInsert(_, _)
SortInsert(sorted, a) ==
    IF sorted = <<>> THEN <<a>>
    ELSE IF ArchRank(Head(sorted)) <= ArchRank(a)
        THEN <<Head(sorted)>> \o SortInsert(Tail(sorted), a)
        ELSE <<a>> \o sorted

RECURSIVE VecSort(_, _)
VecSort(v, acc) == IF v = <<>> THEN acc ELSE VecSort(Tail(v), SortInsert(acc, Head(v)))

\* Mutant: nothing is removed.
DedupNothing(v) == v

\* Vec::dedup: of consecutive equal elements the first is kept.
RECURSIVE Dedup(_)
Dedup(v) ==
    IF Len(v) < 2 THEN v
    ELSE IF v[1] = v[2] THEN Dedup(Tail(v))
    ELSE <<v[1]>> \o Dedup(Tail(v))

\* The closure of the fold in parse_and_expand_arch.
ArchFoldToken(acc, tok, arch_all) ==
    CASE tok \in {<<"all">>, <<"noarch">>} -> acc \o arch_all
      [] tok[1] = "!"                      -> Retain(acc, Tail(tok))
      [] OTHER                             -> Append(acc, tok)

RECURSIVE ArchFold(_, _, _)
ArchFold(tokens, acc, arch_all) ==
    IF tokens = <<>> THEN acc
    ELSE ArchFold(Tail(tokens), ArchFoldToken(acc, Head(tokens), arch_all), arch_all)

\* parse_and_expand_arch over the tokens of the value.
parse_and_expand_arch(tokens, arch_all) == Dedup(VecSort(ArchFold(tokens, <<>>, arch_all), <<>>))

\* ApkbuildReader::arch_all: self.arch_all.extend(arches)
ArchAllExtend(arch_all, arches) == arch_all \o arches

\* Most tokens of an arch value.
MaxTokens == 3

ArchTokens ==
    {<<"all">>, <<"noarch">>, <<"x86">>, <<"!", "x86">>, <<"foo">>, <<"!", "foo">>,
     <<"armhf">>, <<"!", "!", "x86">>}

ArchValues == UNION {[1..n -> ArchTokens] : n \in 0..MaxTokens}

\* The lists arch_all() is called with.
ArchLists == {<<>>, << <<"x86">> >>, << <<"foo">> >>, << <<"x86_64">>, <<"foo">> >>}

\* ApkbuildReader::new() and the arch value of an APKBUILD to be read.
ArchInit ==
    /\ self = [arch_all |-> ARCH_ALL]
    /\ args \in ArchValues
    /\ ret = Pending
    /\ log = <<>>
    /\ cpc = "new"
    /\ DecIdle
    /\ DepIdle
    /\ TxtIdle
    /\ CodIdle
    /\ PkgIdle

\* ApkbuildReader::arch_all(arches)
ArchAll ==
    /\ cpc = "new"
    /\ \E arches \in ArchLists :
          /\ self' = [self EXCEPT !.arch_all = ArchAllExtend(self.arch_all, arches)]
          /\ log' = Some(arches)
    /\ cpc' = "arch_all"
    /\ UNCHANGED <<args, ret, decVars, depVars, txtVars, codVars, pkgVars>>

\* read_apkbuild: apkbuild.arch = parse_and_expand_arch(arch, &self.arch_all)
ReadArch ==
    /\ cpc \in {"new", "arch_all"}
    /\ ret' = Ok(parse_and_expand_arch(args, self.arch_all))
    /\ cpc' = IF cpc = "new" THEN "read_default" ELSE "read"
    /\ UNCHANGED <<self, args, log, decVars, depVars, txtVars, codVars, pkgVars>>

ArchNext ==
    \/ ArchAll
    \/ ReadArch

SpecArch == ArchInit /\ [][ArchNext]_vars

(***************************************************************************)
(* Package::load and Package::load_without_files (package/mod.rs): the     *)
(* three gzip segments of an APKv2 file, each a list of tar entries.       *)
(***************************************************************************)
MissingSignature == [kind |-> "MissingSignature", field |-> "", source |-> <<>>]

MissingPkginfo == [kind |-> "MissingPkginfo", field |-> "", source |-> <<>>]

\* #[error(transparent)] InvalidPkginfo(#[from] pkginfo::Error)
InvalidPkginfo(e) == [kind |-> "InvalidPkginfo", field |-> "", source |-> <<e>>]

\* str::strip_prefix
strip_prefix(s, prefix) ==
    IF Len(s) >= Len(prefix) /\ SubSeq(s, 1, Len(prefix)) = prefix
      THEN Some(SubSeq(s, Len(prefix) + 1, Len(s)))
      ELSE NoneV

\* str::split_once('.')
split_once_dot(s) ==
    IF Find({i \in 1..Len(s) : s[i] = "."}) = 0 THEN NoneV
    ELSE Some(<<SubSeq(s, 1, Find({i \in 1..Len(s) : s[i] = "."}) - 1),
                SubSeq(s, Find({i \in 1..Len(s) : s[i] = "."}) + 1, Len(s))>>)

\* The mutant of and_then below: any name with the prefix is a signature.
AndThenSplitLoose(rest) ==
    IF rest = NoneV THEN NoneV ELSE Some(<<rest[1], <<>>>>)

\* Option::and_then(|s| s.split_once('.'))
AndThenSplit(rest) ==
    IF rest = NoneV THEN NoneV ELSE split_once_dot(rest[1])

\* Option::map(|t| SignatureInfo { alg: t.0, keyname: t.1 })
MapSignatureInfo(t) ==
    IF t = NoneV THEN NoneV ELSE Some([alg |-> t[1][1], keyname |-> t[1][2]])

\* SignatureInfo::from_filename
from_filename(path) ==
    MapSignatureInfo(AndThenSplit(strip_prefix(path, <<".", "S", "I", "G", "N", ".">>)))

\* The loop of read_signatures: the signatures of the entries, in order.
RECURSIVE SignsOf(_)
SignsOf(entries_) ==
    IF entries_ = <<>> THEN <<>>
    ELSE from_filename(Head(entries_).path) \o SignsOf(Tail(entries_))

NonEmptyOr(signs) == IF signs = <<>> THEN Err(MissingSignature) ELSE Ok(signs)

\* Package::read_signatures
read_signatures(segment) == NonEmptyOr(SignsOf(segment))

PKGINFO == <<".", "P", "K", "G", "I", "N", "F", "O">>

\* #[serde(rename_all = "kebab-case")] enum PkgScript
PkgScriptNames ==
    {<<"p", "r", "e", "-", "i", "n", "s", "t", "a", "l", "l">>,
     <<"p", "o", "s", "t", "-", "i", "n", "s", "t", "a", "l", "l">>,
     <<"p", "r", "e", "-", "u", "p", "g", "r", "a", "d", "e">>,
     <<"p", "o", "s", "t", "-", "u", "p", "g", "r", "a", "d", "e">>,
     <<"p", "r", "e", "-", "d", "e", "i", "n", "s", "t", "a", "l", "l">>,
     <<"p", "o", "s", "t", "-", "d", "e", "i", "n", "s", "t", "a", "l", "l">>}

\* PkgScript::from_str
PkgScript_from_str(name) == IF name \in PkgScriptNames THEN Ok(name) ELSE Err(NoErr)

\* and_then(|pairs| serde_key_value::from_pairs(pairs))
AndThenFromPairs(r) == IF r.ok THEN PkgInfo_from_pairs(r.val) ELSE r

\* PkgInfo::parse
PkgInfo_parse(s) == AndThenFromPairs(try_fold(parse_key_value(s, 1), <<>>))

\* The end of read_control: the pkginfo found, or MissingPkginfo.
ControlResult(found, scripts) ==
    IF found = NoneV THEN Err(MissingPkginfo)
    ELSE Ok([pkginfo |-> found[1], scripts |-> scripts])

\* One turn of the loop of read_control on a .PKGINFO entry whose text
\* parsed to r: `?` returns the error, otherwise the loop goes on.
RECURSIVE ControlLoop(_, _, _)
ControlParsed(r, rest, scripts) ==
    IF r.ok THEN ControlLoop(rest, Some(r.val), scripts)
    ELSE Err(InvalidPkginfo(r.err))

\* The loop of read_control.
ControlLoop(entries_, found, scripts) ==
    IF entries_ = <<>> THEN ControlResult(found, scripts)
    ELSE IF Head(entries_).path = PKGINFO
      THEN ControlParsed(PkgInfo_parse(Head(entries_).body), Tail(entries_), scripts)
    ELSE IF PkgScript_from_str(Tail(Head(entries_).path)).ok
      THEN ControlLoop(Tail(entries_), found, Append(scripts, Tail(Head(entries_).path)))
    ELSE ControlLoop(Tail(entries_), found, scripts)

\* Package::read_control
read_control(segment) == ControlLoop(segment, NoneV, <<>>)

\* FileInfo::try_from: the path is the entry's, under "/".
FileInfo_try_from(entry) == [path |-> <<"/">> \o entry.path]

\* Package::read_data
read_data(segment) == Ok([i \in 1..Len(segment) |-> FileInfo_try_from(segment[i])])

\* load_without_files: Ok(Self { signs, pkginfo, scripts, files: vec![] })
NewPackage(signs, control) ==
    [signs |-> signs, pkginfo |-> control.pkginfo, scripts |-> control.scripts,
     files |-> <<>>]

(***************************************************************************)
(* The files loaded: three segments of up to MaxEntries entries each.      *)
(***************************************************************************)
MaxEntries == 2

TarEntry(path, body) == [path |-> path, body |-> body]

SignEntry == TarEntry(<<".", "S", "I", "G", "N", ".", "R", "S", "A", ".", "k">>, <<>>)

PkginfoEntry == TarEntry(PKGINFO, <<Line(KeyText["pkgname"], <<"p">>)>>)

SignatureEntries ==
    {SignEntry,
     TarEntry(<<".", "S", "I", "G", "N", ".", "R", "S", "A">>, <<>>),
     TarEntry(<<".", "S", "I", "G", "N", "A", ".", "R", "S", "A", ".", "k">>, <<>>),
     PkginfoEntry}

ControlEntries ==
    {PkginfoEntry,
     TarEntry(PKGINFO, <<<<"b", "a", "d">>>>),
     TarEntry(<<".", "p", "r", "e", "-", "i", "n", "s", "t", "a", "l", "l">>, <<>>),
     SignEntry}

DataEntries ==
    {TarEntry(<<"u", "s", "r">>, <<>>), TarEntry(<<"e", "t", "c">>, <<>>), PkginfoEntry}

Segments(pool) == UNION {[1..n -> pool] : n \in 0..MaxEntries}

LoadInit ==
    /\ args \in [api : {"load", "load_without_files"},
                 file : Segments(SignatureEntries) \X Segments(ControlEntries)
                          \X Segments(DataEntries)]
    /\ self = [reader |-> args.file, signs |-> <<>>, pkg |-> <<>>]
    /\ ret = Pending
    /\ log = <<>>
    /\ cpc = "load"
    /\ DecIdle
    /\ DepIdle
    /\ TxtIdle
    /\ CodIdle
    /\ PkgIdle

\* The segment the reader stands at, counted from 1.
Position == Len(args.file) - Len(self.reader) + 1

\* let signs = Self::read_signatures(&mut reader)?;
ReadSignatures ==
    /\ cpc = "load"
    /\ log' = Append(log, <<"read_signatures", Position>>)
    /\ self' = [self EXCEPT !.reader = Tail(self.reader),
                            !.signs = read_signatures(Head(self.reader)).val]
    /\ ret' = IF read_signatures(Head(self.reader)).ok THEN ret
              ELSE read_signatures(Head(self.reader))
    /\ cpc' = IF read_signatures(Head(self.reader)).ok THEN "signs" ELSE "done"
    /\ UNCHANGED <<args, decVars, depVars, txtVars, codVars, pkgVars>>

\* let (pkginfo, scripts) = Self::read_control(&mut reader)?; and the
\* Package of load_without_files, which that function returns.
ReadControl ==
    /\ cpc = "signs"
    /\ log' = Append(log, <<"read_control", Position>>)
    /\ \E r \in {read_control(Head(self.reader))} :
          IF ~r.ok
            THEN /\ self' = [self EXCEPT !.reader = Tail(self.reader)]
                 /\ ret' = r
                 /\ cpc' = "done"
            ELSE /\ self' = [self EXCEPT !.reader = Tail(self.reader),
                                         !.pkg = NewPackage(self.signs, r.val)]
                 /\ ret' = IF args.api = "load" THEN ret
                           ELSE Ok(NewPackage(self.signs, r.val))
                 /\ cpc' = IF args.api = "load" THEN "control" ELSE "done"
    /\ UNCHANGED <<args, decVars, depVars, txtVars, codVars, pkgVars>>

\* pkg.files = Self::read_data(&mut reader)?; Ok(pkg)
ReadData ==
    /\ cpc = "control"
    /\ log' = Append(log, <<"read_data", Position>>)
    /\ self' = [self EXCEPT !.reader = Tail(self.reader)]
    /\ ret' = Ok([self.pkg EXCEPT !.files = read_data(Head(self.reader)).val])
    /\ cpc' = "done"
    /\ UNCHANGED <<args, decVars, depVars, txtVars, codVars, pkgVars>>

LoadNext ==
    \/ ReadSignatures
    \/ ReadControl
    \/ ReadData

SpecLoad == LoadInit /\ [][LoadNext]_vars

(***************************************************************************)
(* apk-inspect (src/apk-inspect/src/main.rs): the options and the JSON     *)
(* written to stdout.  A JSON text is the sequence of its tokens; a string *)
(* literal is one token.                                                   *)
(***************************************************************************)
JStr(s) == [t |-> "str", v |-> s]

JArr(items) == [t |-> "arr", v |-> items]

JObj(members) == [t |-> "obj", v |-> members]

\* The concatenation of the texts, sep between each two.
RECURSIVE JoinWith(_, _)
JoinWith(texts, sep) ==
    IF texts = <<>> THEN <<>>
    ELSE IF Len(texts) = 1 THEN texts[1]
    ELSE texts[1] \o sep \o JoinWith(Tail(texts), sep)

\* serde_json::to_writer: CompactFormatter.
RECURSIVE to_writer(_)
to_writer(value) ==
    CASE value.t = "str" -> <<value.v>>
      [] value.t = "arr" ->
           <<"[">> \o JoinWith([i \in 1..Len(value.v) |-> to_writer(value.v[i])], <<",">>)
                   \o <<"]">>
      [] value.t = "obj" ->
           <<"{">> \o JoinWith([i \in 1..Len(value.v) |->
                                  <<value.v[i][1], ":">> \o to_writer(value.v[i][2])],
                               <<",">>)
                   \o <<"}">>

\* PrettyFormatter: two spaces for each level.
Indent(level) == [i \in 1..(2 * level) |-> " "]

\* serde_json::to_writer_pretty: PrettyFormatter; an empty array or object
\* stays on one line.
RECURSIVE to_writer_pretty(_, _)
to_writer_pretty(value, level) ==
    CASE value.t = "str" -> <<value.v>>
      [] value.t = "arr" /\ value.v = <<>> -> <<"[", "]">>
      [] value.t = "arr" /\ value.v # <<>> ->
           <<"[", "\n">>
             \o JoinWith([i \in 1..Len(value.v) |->
                            Indent(level + 1) \o to_writer_pretty(value.v[i], level + 1)],
                         <<",", "\n">>)
             \o <<"\n">> \o Indent(level) \o <<"]">>
      [] value.t = "obj" /\ value.v = <<>> -> <<"{", "}">>
      [] value.t = "obj" /\ value.v # <<>> ->
           <<"{", "\n">>
             \o JoinWith([i \in 1..Len(value.v) |->
                            Indent(level + 1) \o <<value.v[i][1], ":", " ">>
                              \o to_writer_pretty(value.v[i][2], level + 1)],
                         <<",", "\n">>)
             \o <<"\n">> \o Indent(level) \o <<"}">>

\* dump_json(value, pretty)
dump_json(value, pretty) ==
    IF pretty THEN to_writer(value)
    ELSE to_writer_pretty(value, 0) \o <<"\n">>

\* argp::from_env for AppOpts: the switches, global ones anywhere on the
\* command line, and the subcommand.
from_env(argv) ==
    [pretty_print |-> \E i \in 1..Len(argv) : argv[i] \in {"-p", "--pretty-print"},
     version      |-> \E i \in 1..Len(argv) : argv[i] \in {"-V", "--version"},
     no_files     |-> \E i \in 1..Len(argv) : argv[i] = "--no-files",
     action       |-> IF \E i \in 1..Len(argv) : argv[i] \in {"apk", "apkbuild"}
                        THEN Some(argv[Find({i \in 1..Len(argv) : argv[i] \in {"apk", "apkbuild"}})])
                        ELSE NoneV]

\* The command lines given: the switches before and after the subcommand.
CliSwitches == {<<>>, <<"-p">>, <<"--pretty-print">>, <<"-V">>}

CliCommands == {<<>>, <<"apk", "file">>, <<"apk", "--no-files", "file">>, <<"apkbuild", "file">>}

CliArgv == {pre \o cmd \o post : pre \in CliSwitches, cmd \in CliCommands,
                                 post \in {<<>>, <<"-p">>}}

\* What the file named on the command line holds, as the JSON value of
\* the Package or Apkbuild read from it.
CliMembers ==
    {<<"pkgname", JStr("p")>>,
     <<"depends", JArr(<<>>)>>,
     <<"depends", JArr(<<JStr("a")>>)>>,
     <<"depends", JArr(<<JStr("a"), JStr("b")>>)>>}

CliValues == {JObj(members) : members \in (UNION {[1..n -> CliMembers] : n \in 1..2})}

CliInit ==
    /\ args \in [argv : CliArgv, value : CliValues]
    /\ self = <<>>
    /\ ret = Pending
    /\ log = <<>>
    /\ cpc = "main"
    /\ DecIdle
    /\ DepIdle
    /\ TxtIdle
    /\ CodIdle
    /\ PkgIdle

\* main: let args: AppOpts = argp::from_env();
FromEnv ==
    /\ cpc = "main"
    /\ self' = from_env(args.argv)
    /\ cpc' = "args"
    /\ UNCHANGED <<args, ret, log, decVars, depVars, txtVars, codVars, pkgVars>>

\* main: if args.version { println!(...); exit(0) }
Version ==
    /\ cpc = "args"
    /\ self.version
    /\ log' = <<"apk-inspect", " ", "version", "\n">>
    /\ ret' = Ok(0)
    /\ cpc' = "exit"
    /\ UNCHANGED <<self, args, decVars, depVars, txtVars, codVars, pkgVars>>

\* run: args.action.ok_or("no subcommand specified")?, reported by main.
NoSubcommand ==
    /\ cpc = "args"
    /\ ~self.version
    /\ self.action = NoneV
    /\ ret' = Ok(1)
    /\ cpc' = "exit"
    /\ UNCHANGED <<self, args, log, decVars, depVars, txtVars, codVars, pkgVars>>

\* run: dump_json(&pkg, args.pretty_print)? or dump_json(&apkbuild, ...)?
Run ==
    /\ cpc = "args"
    /\ ~self.version
    /\ self.action # NoneV
    /\ log' = dump_json(args.value, self.pretty_print)
    /\ ret' = Ok(0)
    /\ cpc' = "exit"
    /\ UNCHANGED <<self, args, decVars, depVars, txtVars, codVars, pkgVars>>

CliNext ==
    \/ FromEnv
    \/ Version
    \/ NoSubcommand
    \/ Run

SpecCli == CliInit /\ [][CliNext]_vars

(***************************************************************************)
(* parse_secfixes (apkbuild.rs): the secfixes comment block of an          *)
(* APKBUILD, the file being the sequence of its lines.                     *)
(***************************************************************************)
MalformedSecfixes(line_no, line) ==
    [kind |-> "MalformedSecfixes", field |-> "", source |-> <<line_no, line>>]

SECFIXES == <<"#", " ", "s", "e", "c", "f", "i", "x", "e", "s", ":">>

\* str::starts_with
starts_with(s, prefix) == Len(s) >= Len(prefix) /\ SubSeq(s, 1, Len(prefix)) = prefix

\* lines.any(|(_, s)| s.starts_with("# secfixes:")): the position of the
\* first such line, 0 when there is none; the iterator is left behind it.
SecfixesAt(ls) == Find({i \in 1..Len(ls) : starts_with(ls[i], SECFIXES)})

\* str::split(" #").next(): the text in front of the first " #".
BeforeComment(s) ==
    IF Find({i \in 1..(Len(s) - 1) : s[i] = " " /\ s[i + 1] = "#"}) = 0 THEN s
    ELSE SubSeq(s, 1, Find({i \in 1..(Len(s) - 1) : s[i] = " " /\ s[i + 1] = "#"}) - 1)

\* str::strip_suffix(':')
strip_suffix_colon(s) ==
    IF s # <<>> /\ s[Len(s)] = ":" THEN Some(SubSeq(s, 1, Len(s) - 1)) ELSE NoneV

\* Mutant: the index of enumerate() is taken for the line number.
line_no_of_index(index) == index

\* let line_no = pair.0 + 1;
line_no_of(index) == index + 1

\* fixes.push(..) on secfixes.last_mut()
PushFix(secfixes, fix) ==
    [secfixes EXCEPT ![Len(secfixes)].fixes = Append(@, fix)]

\* The body of the for loop for the line at position i (enumerate() gives
\* it the index i - 1), raw being the line behind its "#   " prefix and
\* line the text without its comment, trimmed.
RECURSIVE SecfixLoop(_, _, _)
SecfixLine(ls, i, secfixes, raw, line) ==
    IF strip_prefix(line, <<"-", " ">>) # NoneV
      THEN IF secfixes # <<>>
             THEN SecfixLoop(ls, i + 1,
                             PushFix(secfixes, TrimStart(strip_prefix(line, <<"-", " ">>)[1])))
             ELSE Err(MalformedSecfixes(line_no_of(i - 1), raw))
    ELSE IF strip_suffix_colon(line) # NoneV
      THEN SecfixLoop(ls, i + 1,
                      Append(secfixes, [version |-> strip_suffix_colon(line)[1],
                                        fixes |-> <<>>]))
    ELSE Err(MalformedSecfixes(line_no_of(i - 1), raw))

SecfixText(ls, i, secfixes, raw) ==
    SecfixLine(ls, i, secfixes, raw, Trim(BeforeComment(raw)))

\* lines.map_while(|(i, s)| s.strip_prefix("#   ")..): the loop ends at the
\* first line without the prefix.
SecfixLoop(ls, i, secfixes) ==
    IF i > Len(ls) \/ strip_prefix(ls[i], <<"#", " ", " ", " ">>) = NoneV
      THEN Ok(secfixes)
      ELSE SecfixText(ls, i, secfixes, strip_prefix(ls[i], <<"#", " ", " ", " ">>)[1])

parse_secfixes(ls) ==
    IF SecfixesAt(ls) = 0 THEN Ok(<<>>) ELSE SecfixLoop(ls, SecfixesAt(ls) + 1, <<>>)

(***************************************************************************)
(* The APKBUILDs read: up to MaxFileLines lines, each one of those below.  *)
(***************************************************************************)
MaxFileLines == 4

ApkbuildLines ==
    {SECFIXES,
     <<"#", " ", " ", " ", "1", ":">>,
     <<"#", " ", " ", " ", "2", ":", " ", "#", "c">>,
     <<"#", " ", " ", " ", "-", " ", "a">>,
     <<"#", " ", " ", " ", " ", "-", " ", " ", "b", " ", "#", "-">>,
     <<"#", " ", " ", " ", "x">>,
     <<"#">>,
     <<"p", "=", "1">>}

Apkbuilds == UNION {[1..n -> ApkbuildLines] : n \in 0..MaxFileLines}

SecInit ==
    /\ args \in Apkbuilds
    /\ self = <<>>
    /\ ret = Pending
    /\ log = <<>>
    /\ cpc = "read"
    /\ DecIdle
    /\ DepIdle
    /\ TxtIdle
    /\ CodIdle
    /\ PkgIdle

\* read_apkbuild: apkbuild.secfixes = parse_secfixes(&apkbuild_str)?;
ParseSecfixes ==
    /\ cpc = "read"
    /\ ret' = parse_secfixes(args)
    /\ cpc' = "done"
    /\ UNCHANGED <<self, args, log, decVars, depVars, txtVars, codVars, pkgVars>>

SecNext == ParseSecfixes

SpecSec == SecInit /\ [][SecNext]_vars

(***************************************************************************)
(* decode_source_and_sha512sums (apkbuild.rs).  A HashMap is a function    *)
(* from its keys.                                                          *)
(***************************************************************************)
MissingChecksum(name) == [kind |-> "MissingChecksum", field |-> "", source |-> name]

\* ChunksExact<2, I>::next: the items two at a time, a last odd one is
\* dropped.
RECURSIVE chunks_exact(_)
chunks_exact(items) ==
    IF Len(items) < 2 THEN <<>>
    ELSE <<<<items[1], items[2]>>>> \o chunks_exact(SubSeq(items, 3, Len(items)))

\* HashMap::insert
MapInsert(map, k, v) == [x \in (DOMAIN map) \cup {k} |-> IF x = k THEN v ELSE map[x]]

\* HashMap::remove, the map it leaves.
MapRemove(map, k) == [x \in (DOMAIN map) \ {k} |-> map[x]]

\* .map(|[a, b]| (b, a)).collect::<HashMap<_, _>>()
RECURSIVE CollectChecksums(_, _)
CollectChecksums(chunks, map) ==
    IF chunks = <<>> THEN map
    ELSE CollectChecksums(Tail(chunks), MapInsert(map, Head(chunks)[2], Head(chunks)[1]))

\* str::split_once("::")
split_once_colons(item) ==
    IF Find({i \in 1..(Len(item) - 1) : item[i] = ":" /\ item[i + 1] = ":"}) = 0 THEN NoneV
    ELSE Some(<<SubSeq(item, 1,
                       Find({i \in 1..(Len(item) - 1) : item[i] = ":" /\ item[i + 1] = ":"}) - 1),
                SubSeq(item,
                       Find({i \in 1..(Len(item) - 1) : item[i] = ":" /\ item[i + 1] = ":"}) + 2,
                       Len(item))>>)

\* str::rfind: the last of the positions, 0 when there is none.
RFind(hits) == IF hits = {} THEN 0 ELSE CHOOSE i \in hits : \A j \in hits : i >= j

\* str::rsplit_once('/')
rsplit_once_slash(item) ==
    IF RFind({i \in 1..Len(item) : item[i] = "/"}) = 0 THEN NoneV
    ELSE Some(<<SubSeq(item, 1, RFind({i \in 1..Len(item) : item[i] = "/"}) - 1),
                SubSeq(item, RFind({i \in 1..Len(item) : item[i] = "/"}) + 1, Len(item))>>)

\* let (name, uri) = ...
NameAndUri(item) ==
    IF split_once_colons(item) # NoneV THEN split_once_colons(item)[1]
    ELSE IF rsplit_once_slash(item) # NoneV THEN <<rsplit_once_slash(item)[1][2], item>>
    ELSE <<item, item>>

Source_new(name, uri, checksum) == [name |-> name, uri |-> uri, checksum |-> checksum]

RECURSIVE SourcesFrom(_, _, _)
\* The closure of the map over the source items, nu being the item's name
\* and uri: sha512sums.remove(name) takes the checksum out of the map.
SourceItem(items, map, acc, nu) ==
    IF nu[1] \in DOMAIN map
      THEN SourcesFrom(Tail(items), MapRemove(map, nu[1]),
                       Append(acc, Source_new(nu[1], nu[2], map[nu[1]])))
      ELSE Err(MissingChecksum(nu[1]))

\* .collect::<Result<Vec<Source>, Error>>(): the first error ends it.
SourcesFrom(items, map, acc) ==
    IF items = <<>> THEN Ok(acc) ELSE SourceItem(items, map, acc, NameAndUri(Head(items)))

decode_source_and_sha512sums(source, sha512sums) ==
    SourcesFrom(split_ascii_whitespace(source),
                CollectChecksums(chunks_exact(split_ascii_whitespace(sha512sums)), <<>>),
                <<>>)

(***************************************************************************)
(* The `source` and `sha512sums` values decoded.                           *)
(***************************************************************************)
MaxSources == 2

SourceItems ==
    {<<"a">>, <<"x", "/", "a">>, <<"b", ":", ":", "x", "/", "a">>, <<"c">>}

ChecksumItems ==
    {<<"1">> \o <<" ">> \o <<"a">>, <<"2">> \o <<" ">> \o <<"a">>,
     <<"3">> \o <<"\t">> \o <<"b">>, <<"4">>}

\* The items, each followed by a space.
RECURSIVE Spaced(_)
Spaced(items) == IF items = <<>> THEN <<>> ELSE Head(items) \o <<" ">> \o Spaced(Tail(items))

SourceTexts == {Spaced(items) : items \in UNION {[1..n -> SourceItems] : n \in 0..MaxSources}}

ChecksumTexts ==
    {Spaced(items) : items \in UNION {[1..n -> ChecksumItems] : n \in 0..MaxSources}}

SrcInit ==
    /\ args \in [source : SourceTexts, sha512sums : ChecksumTexts]
    /\ self = <<>>
    /\ ret = Pending
    /\ log = <<>>
    /\ cpc = "read"
    /\ DecIdle
    /\ DepIdle
    /\ TxtIdle
    /\ CodIdle
    /\ PkgIdle

\* read_apkbuild: apkbuild.source = decode_source_and_sha512sums(source, ..)?;
DecodeSource ==
    /\ cpc = "read"
    /\ ret' = decode_source_and_sha512sums(args.source, args.sha512sums)
    /\ cpc' = "done"
    /\ UNCHANGED <<self, args, log, decVars, depVars, txtVars, codVars, pkgVars>>

SrcNext == DecodeSource

SpecSrc == SrcInit /\ [][SrcNext]_vars

(***************************************************************************)
(* Dependencies (dependency.rs): the collection, a Vec<Dependency>.        *)
(***************************************************************************)
\* Dependencies::add: self.0.push(dep)
Dependencies_add(vec, dep) == Append(vec, dep)

\* Dependencies::is_empty
Dependencies_is_empty(vec) == vec = <<>>

\* Dependencies::len
Dependencies_len(vec) == Len(vec)

\* Mutant: the first element equal to dep is removed, the others stay.
RECURSIVE RemoveRetainFirst(_, _)
RemoveRetainFirst(vec, dep) ==
    IF vec = <<>> THEN [vec |-> <<>>, found |-> FALSE]
    ELSE IF Head(vec) = dep THEN [vec |-> Tail(vec), found |-> TRUE]
    ELSE [vec   |-> <<Head(vec)>> \o RemoveRetainFirst(Tail(vec), dep).vec,
          found |-> RemoveRetainFirst(Tail(vec), dep).found]

\* The retain of Dependencies::remove: every element equal to dep is
\* dropped and sets found.
RECURSIVE RemoveRetain(_, _)
RemoveRetain(vec, dep) ==
    IF vec = <<>> THEN [vec |-> <<>>, found |-> FALSE]
    ELSE IF Head(vec) = dep
      THEN [vec |-> RemoveRetain(Tail(vec), dep).vec, found |-> TRUE]
    ELSE [vec   |-> <<Head(vec)>> \o RemoveRetain(Tail(vec), dep).vec,
          found |-> RemoveRetain(Tail(vec), dep).found]

\* Dependencies::remove
Dependencies_remove(vec, dep) == RemoveRetain(vec, dep)

\* The collections hold up to MaxDeps of the dependencies below.
MaxDeps == 3

SomeDependencies ==
    {Dependency(<<"a">>, NoneV, FALSE, NoneV),
     Dependency(<<"a">>, NoneV, TRUE, NoneV),
     Dependency(<<"b">>, NoneV, FALSE, NoneV)}

\* Dependencies::default()
DepsInit ==
    /\ self = <<>>
    /\ args = <<>>
    /\ ret = Pending
    /\ log = <<>>
    /\ cpc = "default"
    /\ DecIdle
    /\ DepIdle
    /\ TxtIdle
    /\ CodIdle
    /\ PkgIdle

\* deps.add(dep); log keeps the collection as it was before the call.
Add ==
    /\ Len(self) < MaxDeps
    /\ \E dep \in SomeDependencies :
          /\ args' = dep
          /\ self' = Dependencies_add(self, dep)
    /\ log' = self
    /\ ret' = Pending
    /\ cpc' = "add"
    /\ UNCHANGED <<decVars, depVars, txtVars, codVars, pkgVars>>

\* deps.remove(&dep)
Remove ==
    /\ \E dep \in SomeDependencies :
          /\ args' = dep
          /\ self' = Dependencies_remove(self, dep).vec
          /\ ret' = Ok(Dependencies_remove(self, dep).found)
    /\ log' = self
    /\ cpc' = "remove"
    /\ UNCHANGED <<decVars, depVars, txtVars, codVars, pkgVars>>

\* deps.is_empty()
IsEmpty ==
    /\ ret' = Ok(Dependencies_is_empty(self))
    /\ log' = self
    /\ args' = <<>>
    /\ cpc' = "is_empty"
    /\ UNCHANGED <<self, decVars, depVars, txtVars, codVars, pkgVars>>

\* deps.len()
GetLen ==
    /\ ret' = Ok(Dependencies_len(self))
    /\ log' = self
    /\ args' = <<>>
    /\ cpc' = "len"
    /\ UNCHANGED <<self, decVars, depVars, txtVars, codVars, pkgVars>>

DepsNext ==
    \/ Add
    \/ Remove
    \/ IsEmpty
    \/ GetLen

SpecDeps == DepsInit /\ [][DepsNext]_vars

\* The stream the decoder consumes.
Stream ==
    IF api = "from_pairs" THEN OrderedInput(sort_by_key(pairs)) ELSE OrderedInput(pairs)

\* The pairs consumed so far, and the number of them.
NConsumed == IF pc = "call" THEN 0 ELSE Len(Stream) - Len(input)

\* The values of key k in ps, in the order of ps.
RECURSIVE ValuesOf(_, _)
ValuesOf(k, ps) ==
    IF ps = <<>> THEN <<>>
    ELSE (IF Head(ps)[1] = k THEN <<Head(ps)[2]>> ELSE <<>>) \o ValuesOf(k, Tail(ps))

Present(k, ps) == \E i \in 1..Len(ps) : ps[i][1] = k

\* The pairs of key k lie next to each other in ps.
Contiguous(k, ps) ==
    \A i, j \in 1..Len(ps) :
        (i < j /\ ps[i][1] = k /\ ps[j][1] = k) => \A h \in i..j : ps[h][1] = k

SeqFields == {f \in FieldSet : Schema[f].shape = "seq"}

\* A decimal numeral, as a value of an integer field has to be.
IsNumeral(v) == v # <<>> /\ \A i \in 1..Len(v) : v[i] \in Digits

\* The values vs supplied for field f are what the field's type takes: one
\* numeral for an integer (optional or not), any strings for a list.
WellFormedGroup(f, vs) ==
    Schema[f].shape = "seq" \/ (Len(vs) = 1 /\ IsNumeral(vs[1]))

\* Every pair present is well-formed: the pairs of each field are contiguous
\* in the stream and are what the field's type takes.
WellFormed(ps) ==
    \A f \in FieldSet :
        Present(f, ps) => Contiguous(f, ps) /\ WellFormedGroup(f, ValuesOf(f, ps))

\* The step-by-step decode and the decode as one function agree.
StepwiseAgrees ==
    pc = "done" =>
        result = (IF api = "from_pairs" THEN from_pairs(pairs) ELSE from_ordered_pairs(pairs))

(***************************************************************************)
(* Properties of the decoder.                                              *)
(***************************************************************************)

\* C1: when the pairs of key k are contiguous in the stream and field k is
\* sequence-typed, the field is decoded to the values of k in encounter order
\* (a single pair to a one-element list), in the visitor's slot as soon as the
\* group is read and in the record that is returned; the group never causes
\* an error.
C1_ContiguousSequence ==
    \A k \in SeqFields :
        ((fields[k] # <<>> \/ pc = "done")
                /\ Present(k, Stream) /\ Contiguous(k, Stream)) =>
                /\ fields[k] # <<>> => fields[k][1] = ValuesOf(k, Stream)
                /\ (pc = "done" /\ result.ok) => result.val[k] = ValuesOf(k, Stream)
                /\ (pc = "done" /\ ~result.ok) =>
                        /\ result.err.field # k
                        /\ result.err.source # <<"duplicate field", k>>

\* C1 witness: a record is returned whose list holds the two values of the
\* two adjacent pairs of its key, in their order.
C1_Witness ==
    /\ pc = "done" /\ result.ok
    /\ ValuesOf("vec_string", Stream) = <<<<"x">>, <<"7">>>>
    /\ result.val["vec_string"] = <<<<"x">>, <<"7">>>>

\* C2: when every pair present is well-formed and some required field has no
\* pair, the decode fails with MissingField naming a required field that has
\* no pair; when exactly one required field is absent it names that one.
C2_MissingField ==
    LET absent == {f \in FieldSet : Required(f) /\ ~Present(f, pairs)}
    IN  (pc = "done" /\ WellFormed(Stream) /\ absent # {}) =>
            /\ ~result.ok
            /\ result.err.kind = "MissingField"
            /\ result.err.field \in absent

\* C2 witness: only vec_string is absent, and the error names it.
C2_Witness ==
    /\ pc = "done" /\ WellFormed(Stream)
    /\ Present("f_i64", pairs) /\ Present("opt_u16", pairs) /\ ~Present("vec_string", pairs)
    /\ result = Err(MissingField("vec_string"))

\* The group the last next_value_seed call read: the run at the end of the
\* consumed prefix of the stream.
LastGroupKey == Stream[NConsumed][1]

LastGroupValues ==
    LET k == LastGroupKey
        first == CHOOSE i \in 1..NConsumed :
                    /\ \A j \in i..NConsumed : Stream[j][1] = k
                    /\ i = 1 \/ Stream[i - 1][1] # k
    IN  [j \in 1..(NConsumed - first + 1) |-> Stream[first + j - 1][2]]

\* Why the values vs are not what field f takes: the integer parse error of
\* the lone value, or a sequence where one value was expected.
Cause(f, vs) ==
    IF Len(vs) > 1
        THEN <<"invalid type", "sequence",
               IF Schema[f].shape = "option" THEN "option" ELSE Schema[f].elem>>
        ELSE ParseInt(Schema[f].elem, vs[1]).err

\* C3: when the group read last is for a known key and is not what the
\* field takes, the decode has failed with InvalidField naming that key, the
\* source being the original cause; a decode that returns InvalidField names
\* the key of the group it read last, and that group is not what the field
\* takes; a stream holding a malformed value for a known key never yields a
\* record, and from_pairs reports it as InvalidField.
C3_InvalidField ==
    pc = "done" =>
        /\ (NConsumed > 0 /\ LastGroupKey \in FieldSet
                /\ ~WellFormedGroup(LastGroupKey, LastGroupValues)) =>
                result = Err(InvalidField(Cause(LastGroupKey, LastGroupValues),
                                          LastGroupKey))
        /\ (~result.ok /\ result.err.kind = "InvalidField") =>
                /\ NConsumed > 0
                /\ result.err.field = LastGroupKey
                /\ LastGroupKey \in FieldSet
                /\ ~WellFormedGroup(LastGroupKey, LastGroupValues)
                /\ result.err.source = Cause(LastGroupKey, LastGroupValues)
        /\ (\E f \in FieldSet : Present(f, pairs) /\ \E i \in 1..Len(pairs) :
                pairs[i][1] = f /\ Schema[f].shape # "seq" /\ ~IsNumeral(pairs[i][2])) =>
                /\ ~result.ok
                /\ result.err.kind # "MissingField"
                /\ api = "from_pairs" => result.err.kind = "InvalidField"

\* C3 witness: the value of f_i64 is no number; the error names f_i64 and
\* carries the integer parse error.
C3_Witness ==
    /\ pc = "done"
    /\ result = Err(InvalidField(<<"invalid digit found in string">>, "f_i64"))
    /\ Present("vec_string", pairs)

\* ps with the pair kv put in front of position i + 1.
InsertAt(ps, i, kv) == SubSeq(ps, 1, i) \o <<kv>> \o SubSeq(ps, i + 1, Len(ps))

\* C4: from_pairs returns the same outcome, record or error, when a pair with
\* an unknown key is added anywhere to its input (the input may itself hold
\* unknown keys, once or repeated, so this covers any number of them).
C4_UnknownKeysIgnored ==
    (pc = "done" /\ api = "from_pairs") =>
        \A i \in 0..Len(pairs) : \A k \in UnknownKeys : \A v \in Values :
            from_pairs(InsertAt(pairs, i, <<k, v>>)) = result

\* C4 witness: a record is returned for two adjacent pairs of vec_string and
\* one of f_i64, and it is the record returned with an unknown key put between
\* the two.
C4_Witness ==
    /\ pc = "done" /\ api = "from_pairs" /\ result.ok
    /\ Len(pairs) = 3 /\ pairs[1][1] = "vec_string" /\ pairs[2][1] = "vec_string"
    /\ from_pairs(InsertAt(pairs, 1, <<"other", <<"x">>>>)) = result

RECURSIVE Regroup(_, _)
Regroup(ps, i) ==
    IF i > Len(KeyOrder) THEN <<>>
    ELSE LET Is(kv) == kv[1] = KeyOrder[i]
         IN  SelectSeq(ps, Is) \o Regroup(ps, i + 1)

\* C6: from_pairs returns what from_ordered_pairs returns for the pairs
\* regrouped by key with each key's pairs in their original order; the pairs
\* of a sequence field, adjacent in the input or not, are decoded as one
\* sequence in input order.
C6_StableSort ==
    (pc = "done" /\ api = "from_pairs") =>
        /\ result = from_ordered_pairs(Regroup(pairs, 1))
        /\ result.ok =>
            \A k \in SeqFields : Present(k, pairs) => result.val[k] = ValuesOf(k, pairs)

\* C6 witness: two different values of vec_string are separated by another
\* key in the input, and the record holds them in input order.
C6_Witness ==
    /\ pc = "done" /\ api = "from_pairs" /\ result.ok
    /\ ~Contiguous("vec_string", pairs)
    /\ result.val["vec_string"] = <<<<"x">>, <<"7">>>>

Measure ==
    3 * (IF pc = "call" THEN Len(pairs) ELSE Len(input))
        + (CASE pc = "call" -> 3 [] pc = "next_key" -> 2 [] pc = "done" -> 0 [] OTHER -> 1)

\* C8: a decode ends with a record or an error.  Some step is possible until
\* the call has returned and the steps taken plus the steps left never exceed
\* three per pair and three for the call, so a call of n pairs returns within
\* 3n + 3 steps; every next_value_seed call consumes at least one pair; what
\* is left of the stream is always a suffix of it (pairs are consumed once,
\* in order), a record is only returned with the stream exhausted, and there
\* are at most as many value steps as pairs.
C8_Terminates ==
    /\ pc # "done" => ENABLED Next
    /\ pc = "done" => result # Pending
    /\ ticks + Measure <= 3 * Len(pairs) + 3
    /\ steps > 0 => took >= 1
    /\ pc # "call" => input = SubSeq(Stream, NConsumed + 1, Len(Stream))
    /\ steps <= NConsumed /\ steps <= Len(pairs)
    /\ (pc = "done" /\ result.ok) => input = <<>>

\* C8 witness: a stream of three pairs is decoded to a record in two value
\* steps, seven steps in all.
C8_Witness ==
    pc = "done" /\ result.ok /\ Len(pairs) = 3 /\ steps = 2 /\ ticks = 7 /\ input = <<>>

(***************************************************************************)
(* Dependency round trips                                                  *)
(***************************************************************************)
Has(s, cs) == \E i \in 1..Len(s) : s[i] \in cs

\* A valid Dependency of the mapping form: a non-empty name, and a
\* constraint, if any, of a valid operator and a non-empty version with no
\* whitespace around it.
ValidForMapping(dep) ==
    /\ dep.name # <<>>
    /\ dep.constraint # NoneV =>
        /\ dep.constraint[1].op \in ValidOps
        /\ dep.constraint[1].version # <<>>
        /\ Trim(dep.constraint[1].version) = dep.constraint[1].version

\* A valid Dependency of the token form: a non-empty name free of '!', '@'
\* and operator characters, a constraint, if any, of a valid operator and a
\* non-empty version free of '@', whitespace and operator characters, and a
\* repo_pin, if any, that is not empty.
ValidForToken(dep) ==
    /\ dep.name # <<>>
    /\ ~Has(dep.name, {"!", "@"} \cup OpChars)
    /\ dep.constraint # NoneV =>
        /\ dep.constraint[1].op \in ValidOps
        /\ dep.constraint[1].version # <<>>
        /\ ~Has(dep.constraint[1].version, {"@"} \cup WhiteSpace \cup OpChars)
    /\ dep.repo_pin # NoneV => dep.repo_pin[1] # <<>>

\* C9: for every valid Dependency, from_key_value applied to the pair that
\* to_key_value produced for it succeeds and returns the dependency with
\* repo_pin None, and the pair is the one produced for the dependency
\* without its repo_pin.
C9_MappingRoundTrip ==
    ValidForMapping(dependency) =>
        /\ dpc \in {"kv", "from_kv"} =>
                key_value = to_key_value([dependency EXCEPT !.repo_pin = NoneV])
        /\ dpc = "from_kv" => decoded = Ok([dependency EXCEPT !.repo_pin = NoneV])

\* What does hold of the mapping round trip: it returns the dependency without its
\* repo_pin for every operator but Any, and fails for Any.
MappingRoundTripButAny ==
    (ValidForMapping(dependency) /\ dpc = "from_kv") =>
        IF dependency.constraint # NoneV /\ dependency.constraint[1].op = Op_Any
          THEN ~decoded.ok /\ decoded.err.kind = "ConstraintParseError"
          ELSE decoded = Ok([dependency EXCEPT !.repo_pin = NoneV])

\* C10: for every valid Dependency, from_str applied to the text of the
\* dependency succeeds and returns the dependency, repo_pin included.
C10_TokenRoundTrip ==
    (ValidForToken(dependency) /\ dpc = "from_str") => decoded = Ok(dependency)

\* What does hold of the token round trip: it returns the dependency for
\* every operator but Any, and for Any a dependency with no constraint whose
\* name is the name encoded followed by the constraint's text.
TokenRoundTripButAny ==
    (ValidForToken(dependency) /\ dpc = "from_str") =>
        IF dependency.constraint # NoneV /\ dependency.constraint[1].op = Op_Any
          THEN decoded =
                 Ok(Dependency(dependency.name
                                    \o Constraint_fmt(dependency.constraint[1]),
                               NoneV, dependency.conflict, dependency.repo_pin))
          ELSE decoded = Ok(dependency)

(***************************************************************************)
(* Properties of the parsers of the dependency algebra.                    *)
(***************************************************************************)
\* The ten operator texts and the flags each stands for.
OpTable ==
    {<<<<"=">>, Equal>>,
     <<<<"~">>, Equal \cup Fuzzy>>,
     <<<<">">>, Greater>>,
     <<<<">", "=">>, Greater \cup Equal>>,
     <<<<"~", ">">>, Greater \cup Equal \cup Fuzzy>>,
     <<<<"<">>, Less>>,
     <<<<"<", "=">>, Less \cup Equal>>,
     <<<<"~", "<">>, Less \cup Equal \cup Fuzzy>>,
     <<<<">", "<">>, Less \cup Greater>>,
     <<<<"*">>, Equal \cup Less \cup Greater \cup Fuzzy>>}

\* C11: for each of the ten operator texts Op::from_str succeeds with the
\* flags the text stands for, and formatting the parsed operator gives the
\* text back.
C11_OpCanonical ==
    \A e \in OpTable :
        text = e[1] =>
            /\ tpc \in {"op", "op_shown"} => parsed = Ok(e[2])
            /\ tpc = "op_shown" => shown = text

\* C11 witness: "~>" was parsed to Greater|Equal|Fuzzy and formatted back.
C11_Witness ==
    /\ tpc = "op_shown"
    /\ text = <<"~", ">">>
    /\ parsed = Ok(Greater \cup Equal \cup Fuzzy)
    /\ shown = <<"~", ">">>

\* C12: Op::from_str fails, with a ConstraintParseError carrying the text,
\* for the empty text, for every text of more than two characters and for
\* every text with a character outside = < > ~ *, and succeeds for every
\* other text.
C12_OpRejection ==
    tpc = "op" =>
        /\ parsed.ok <=>
                (Len(text) \in 1..2 /\ \A i \in 1..Len(text) : text[i] \in OpChars)
        /\ ~parsed.ok => parsed.err = ConstraintParseError(text)

\* C12 witness: the three-character text "<=>" of operator characters is
\* rejected.
C12_Witness ==
    /\ tpc = "op"
    /\ text = <<"<", "=", ">">>
    /\ parsed = Err(ConstraintParseError(text))

\* The maximal leading run of s of characters of cs, and what follows it.
LeadingRun(s, cs) ==
    LET mid == Find({i \in 1..Len(s) : s[i] \notin cs})
    IN  IF mid = 0 THEN s ELSE SubSeq(s, 1, mid - 1)

AfterRun(s, cs) == SubSeq(s, Len(LeadingRun(s, cs)) + 1, Len(s))

\* The characters is_op knows.
IsOpChars == {c \in Chars : is_op(c)}

\* C13: Constraint::from_str fails with a ConstraintParseError when the
\* operator half (the leading run of operator characters = < > ~ *) or the
\* version half (what follows it) is empty after trimming, and when the
\* leading operator run is not one or two characters long; the error carries
\* the text or its operator half.
C13_ConstraintRejection ==
    tpc = "constraint" =>
        LET op      == LeadingRun(text, OpChars)
            version == AfterRun(text, OpChars)
        IN  (Trim(op) = <<>> \/ Trim(version) = <<>> \/ Len(op) \notin 1..2) =>
                /\ ~parsed.ok
                /\ parsed.err.kind = "ConstraintParseError"
                /\ parsed.err.source \in {text, op}

\* What does hold of the failures of Constraint::from_str: the halves are
\* those of the characters is_op knows, which leave out '*'.  It fails
\* exactly when a half is empty after trimming or the operator half is longer
\* than two characters, and the error carries the text or the operator half.
ConstraintRejectionByIsOp ==
    tpc = "constraint" =>
        LET op      == LeadingRun(text, IsOpChars)
            version == AfterRun(text, IsOpChars)
        IN  /\ ~parsed.ok <=>
                    (Trim(op) = <<>> \/ Trim(version) = <<>> \/ Len(op) \notin 1..2)
            /\ ~parsed.ok =>
                    /\ parsed.err.kind = "ConstraintParseError"
                    /\ parsed.err.source \in {text, op}

\* C14: whenever Constraint::from_str succeeds, the operator is the parse of
\* the maximal leading run of operator characters = < > ~ * of the text, the
\* version is what follows the run with the whitespace around it trimmed,
\* and both are non-empty.
C14_MaximalOperatorRun ==
    (tpc = "constraint" /\ parsed.ok) =>
        /\ LeadingRun(text, OpChars) # <<>>
        /\ parsed.val.op # Op_none
        /\ Ok(parsed.val.op) = Op_from_str(LeadingRun(text, OpChars))
        /\ parsed.val.version = Trim(AfterRun(text, OpChars))
        /\ parsed.val.version # <<>>

\* What does hold of the successes of Constraint::from_str: the same with
\* the run taken by the characters is_op knows, which leave out '*'.
MaximalRunByIsOp ==
    (tpc = "constraint" /\ parsed.ok) =>
        /\ LeadingRun(text, IsOpChars) # <<>>
        /\ parsed.val.op # Op_none
        /\ Ok(parsed.val.op) = Op_from_str(LeadingRun(text, IsOpChars))
        /\ parsed.val.version = Trim(AfterRun(text, IsOpChars))
        /\ parsed.val.version # <<>>

\* C15: whenever Dependency::from_str succeeds, the name does not start with
\* '!' and holds no '@'.
C15_NameCarriesNoMarker ==
    (tpc = "dependency" /\ parsed.ok) =>
        /\ ~(parsed.val.name # <<>> /\ parsed.val.name[1] = "!")
        /\ ~Has(parsed.val.name, {"@"})

\* What does hold of the name Dependency::from_str returns: it holds no '@',
\* and it starts with '!' only when the text starts with two of them, of
\* which one is taken for the conflict flag.
NameCarriesNoPin ==
    (tpc = "dependency" /\ parsed.ok) =>
        /\ ~Has(parsed.val.name, {"@"})
        /\ (parsed.val.name # <<>> /\ parsed.val.name[1] = "!") =>
                /\ Len(text) >= 2 /\ text[1] = "!" /\ text[2] = "!"
                /\ parsed.val.conflict

\* The constraint a text stands for when cs are the operator characters: the
\* parse of its leading operator run and the trimmed remainder, an error
\* when either is empty or the run is no operator.
ConstraintOf(s, cs) ==
    LET op      == LeadingRun(s, cs)
        version == Trim(AfterRun(s, cs))
    IN  IF op = <<>> \/ version = <<>> THEN Err(ConstraintParseError(s))
        ELSE IF ~Op_from_str(op).ok THEN Op_from_str(op)
        ELSE Ok(Constraint(Op_from_str(op).val, version))

\* The dependency a token [!]name[operator version][@pin] stands for when cs
\* are the operator characters: the pin is what follows the first '@', the
\* constraint starts at the first operator character of what precedes the
\* pin, and a leading '!' of the name sets the conflict flag.
DependencyOf(s, cs) ==
    LET at       == Find({i \in 1..Len(s) : s[i] = "@"})
        body     == IF at = 0 THEN s ELSE SubSeq(s, 1, at - 1)
        pin      == IF at = 0 THEN NoneV ELSE Some(SubSeq(s, at + 1, Len(s)))
        mid      == Find({i \in 1..Len(body) : body[i] \in cs})
        raw      == IF mid = 0 THEN body ELSE SubSeq(body, 1, mid - 1)
        c        == ConstraintOf(SubSeq(body, mid, Len(body)), cs)
        conflict == raw # <<>> /\ raw[1] = "!"
        name     == IF conflict THEN Tail(raw) ELSE raw
    IN  IF mid = 0 THEN Ok(Dependency(name, NoneV, conflict, pin))
        ELSE IF ~c.ok THEN c
        ELSE Ok(Dependency(name, Some(c.val), conflict, pin))

\* C16: Dependency::from_str returns the dependency the token stands for,
\* the operator characters being = < > ~ *, and fails with the
\* ConstraintParseError of the constraint part when that is malformed.
C16_TokenParse ==
    tpc = "dependency" => parsed = DependencyOf(text, OpChars)

\* What does hold of Dependency::from_str: it returns the dependency the
\* token stands for with the operator characters is_op knows, which leave
\* out '*'; so "ruby>=3.0" gives ruby with (Greater|Equal, "3.0"),
\* "!sample-legacy" a conflict with sample-legacy and "foo@testing" foo
\* pinned to testing.
TokenParseByIsOp ==
    tpc = "dependency" =>
        /\ parsed = DependencyOf(text, IsOpChars)
        /\ text = <<"r", "u", "b", "y", ">", "=", "3", ".", "0">> =>
                parsed = Ok(Dependency(<<"r", "u", "b", "y">>,
                                       Some(Constraint(Greater \cup Equal,
                                                       <<"3", ".", "0">>)),
                                       FALSE, NoneV))
        /\ text = <<"!", "s", "a", "m", "p", "l", "e", "-", "l", "e", "g", "a", "c", "y">> =>
                parsed = Ok(Dependency(Tail(text), NoneV, TRUE, NoneV))
        /\ text = <<"f", "o", "o", "@", "t", "e", "s", "t", "i", "n", "g">> =>
                parsed = Ok(Dependency(<<"f", "o", "o">>, NoneV, FALSE,
                                       Some(<<"t", "e", "s", "t", "i", "n", "g">>)))

\* C17: from_key_value(key, value) returns, for "!", a bare conflict; for
\* "!" followed by a text, a conflict with the parse of that text as its
\* constraint; for "*", a plain dependency without constraint; for any other
\* value, a plain dependency with the parse of the value as its constraint.
\* It fails with the ConstraintParseError of the constraint text when that
\* does not parse; the name is the key as given and repo_pin is None.
C17_FromKeyValueCases ==
    tpc = "key_value" =>
        LET bang == text # <<>> /\ text[1] = "!"
            ctext == IF bang THEN Tail(text) ELSE text
            c == Constraint_from_str(ctext)
        IN  /\ text = <<"!">> => parsed = Ok(Dependency(key, NoneV, TRUE, NoneV))
            /\ text = <<"*">> => parsed = Ok(Dependency(key, NoneV, FALSE, NoneV))
            /\ (text \notin {<<"!">>, <<"*">>} /\ c.ok) =>
                    parsed = Ok(Dependency(key, Some(c.val), bang, NoneV))
            /\ (text \notin {<<"!">>, <<"*">>} /\ ~c.ok) =>
                    /\ parsed = Err(c.err)
                    /\ parsed.err.kind = "ConstraintParseError"
            /\ parsed.ok => parsed.val.name = key /\ parsed.val.repo_pin = NoneV

\* C17 witness: the value "!> 1.2.3" under a key that holds '!' and '@' gives
\* a conflict named by the key as it is, with the constraint (Greater, "1.2.3").
C17_Witness ==
    /\ tpc = "key_value"
    /\ key = <<"!", "a", "@", "e">>
    /\ text = <<"!", ">", " ", "1", ".", "2", ".", "3">>
    /\ parsed = Ok(Dependency(key,
                              Some(Constraint(Greater, <<"1", ".", "2", ".", "3">>)),
                              TRUE, NoneV))

(***************************************************************************)
(* The map/sequence codec.                                                 *)
(***************************************************************************)
\* The operators a constraint of the mapping/sequence equivalence may use:
\* all but the one written "*".
CodecOps == ValidOps \ {Op_Any}

\* The entry is in the domain of the equivalence: no repository pin, and a
\* constraint, if any, of one of the nine operators.
Equivalable(e) ==
    /\ e.repo_pin = NoneV
    /\ e.constraint # NoneV => e.constraint[1].op \in CodecOps

\* C18 as stated: for a list of dependencies with pairwise distinct names, no
\* repository pin and constraints of the operators = ~ > >= ~> < <= ~< ><,
\* the codec decodes the mapping of their (name, value) entries and the
\* sequence of their tokens to equal collections, which hold the
\* dependencies in the order of the input.
C18_MapSeqEquivalence ==
    (/\ from_mapping # Pending
     /\ from_sequence # Pending
     /\ \A i \in 1..Len(entries) : Equivalable(entries[i])
     /\ \A i, j \in 1..Len(entries) : i # j => entries[i].name # entries[j].name)
    => /\ from_mapping.ok
       /\ from_mapping = from_sequence
       /\ from_mapping.val = entries

\* C18, amended: the same, for dependencies that are moreover valid in the
\* token form (a non-empty name free of '!', '@' and operator characters, a
\* non-empty version free of '@', whitespace and operator characters).
C18_MapSeqEquivalenceOfTokens ==
    (/\ from_mapping # Pending
     /\ from_sequence # Pending
     /\ \A i \in 1..Len(entries) : Equivalable(entries[i]) /\ ValidForToken(entries[i])
     /\ \A i, j \in 1..Len(entries) : i # j => entries[i].name # entries[j].name)
    => /\ from_mapping.ok
       /\ from_mapping = from_sequence
       /\ from_mapping.val = entries

\* Two constrained entries, one of them a conflict, decoded from both shapes.
C18_Witness ==
    /\ Len(entries) = 2
    /\ \A i \in 1..2 : /\ Equivalable(entries[i])
                        /\ ValidForToken(entries[i])
                        /\ entries[i].constraint # NoneV
    /\ entries[1].conflict
    /\ entries[1].name = <<"b">>
    /\ from_mapping # Pending
    /\ from_sequence # Pending
    /\ from_mapping.ok
    /\ from_sequence = from_mapping

(***************************************************************************)
(* .PKGINFO                                                                *)
(***************************************************************************)
\* The fields of PkgInfo the codec decodes.
CodecFields == {"depends", "conflicts", "install_if"}

\* The values of the pairs of ps with key k, in the order of ps.
RECURSIVE PairValues(_, _)
PairValues(ps, k) ==
    IF ps = <<>> THEN <<>>
    ELSE (IF Head(ps)[1] = k THEN <<Head(ps)[2]>> ELSE <<>>) \o PairValues(Tail(ps), k)

\* C19: when the pair stream holds exactly one pair for the key of a
\* codec-typed field, with value s, the field is decoded as the one-element
\* sequence [s]: a record returned holds for the field the collection the
\* codec decodes from a sequence with the only element s, and the decode
\* fails for the field only if s does not parse as an entry, with the error
\* the sequence fails with.
C19_BareStringIsSingleton ==
    (kpc = "done" /\ kvs.ok) =>
        \A f \in CodecFields :
            Len(PairValues(kvs.val, f)) = 1 =>
                LET s == PairValues(kvs.val, f)[1]
                    viaSeq == key_value_vec_map_deserialize(SeqDe(<<ValueDe(s)>>))
                IN  /\ viaSeq.ok = Dependency_from_str(s).ok
                    /\ pkginfo.ok =>
                          /\ viaSeq.ok
                          /\ pkginfo.val[f] = viaSeq.val
                          /\ pkginfo.val[f] = <<Dependency_from_str(s).val>>
                    /\ (~pkginfo.ok /\ pkginfo.err.field = f) =>
                          /\ ~Dependency_from_str(s).ok
                          /\ pkginfo.err = RewrapError(viaSeq.err, f)
                    /\ ~Dependency_from_str(s).ok => ~pkginfo.ok

\* A text with one `depend` line whose record holds its one dependency.
C19_Witness ==
    /\ kpc = "done"
    /\ kvs.ok
    /\ Len(PairValues(kvs.val, "depends")) = 1
    /\ pkginfo.ok
    /\ Len(pkginfo.val["depends"]) = 1
    /\ pkginfo.val["depends"][1].constraint # NoneV

\* The values of the `depend` lines among the items that are kept for
\* depends (those that do not start with '!') together with the values of
\* the lines keyed depends, in line order.
RECURSIVE DependsValues(_)
DependsValues(items) ==
    IF items = <<>> THEN <<>>
    ELSE LET k == Head(items).val[1]
             v == Head(items).val[2]
         IN  (IF (k = "depend" /\ ~(v # <<>> /\ v[1] = "!")) \/ k = "depends"
                THEN <<v>> ELSE <<>>) \o DependsValues(Tail(items))

\* The values of the `depend` lines that start with '!', without it,
\* together with the values of the lines keyed conflicts, in line order.
RECURSIVE ConflictsValues(_)
ConflictsValues(items) ==
    IF items = <<>> THEN <<>>
    ELSE LET k == Head(items).val[1]
             v == Head(items).val[2]
         IN  (IF k = "depend" /\ v # <<>> /\ v[1] = "!" THEN <<Tail(v)>>
              ELSE IF k = "conflicts" THEN <<v>> ELSE <<>>) \o ConflictsValues(Tail(items))

\* The dependencies the tokens parse to, in order.
ParsedTokens(vals) == [i \in 1..Len(vals) |-> Dependency_from_str(vals[i]).val]

\* The `depend` values of a parsed text are distributed in line order.
DependDistributed ==
    /\ pkginfo.val["depends"] = ParsedTokens(DependsValues(parse_key_value(lines, 1)))
    /\ pkginfo.val["conflicts"] = ParsedTokens(ConflictsValues(parse_key_value(lines, 1)))

\* C20: after PkgInfo::parse succeeded, no Dependency of depends or of
\* conflicts has its conflict flag set; the `depend` values starting with
\* '!' are in conflicts without the '!', every other in depends, each list
\* in the order of the lines.
C20_ConflictFlagCleared ==
    (kpc = "done" /\ pkginfo.ok) =>
        /\ \A f \in {"depends", "conflicts"} :
              \A i \in 1..Len(pkginfo.val[f]) : ~pkginfo.val[f][i].conflict
        /\ DependDistributed

\* What does hold after PkgInfo::parse succeeded: the `depend` values are
\* distributed over depends and conflicts in line order, one '!' removed from
\* those that go to conflicts, and a Dependency of either list has its
\* conflict flag set exactly when the token it was parsed from, after that
\* removal, still starts with '!'.
DependDistributedOneMarker ==
    (kpc = "done" /\ pkginfo.ok) =>
        /\ DependDistributed
        /\ \A i \in 1..Len(pkginfo.val["conflicts"]) :
              LET v == ConflictsValues(parse_key_value(lines, 1))[i]
              IN  pkginfo.val["conflicts"][i].conflict = (v # <<>> /\ v[1] = "!")
        /\ \A i \in 1..Len(pkginfo.val["depends"]) :
              LET v == DependsValues(parse_key_value(lines, 1))[i]
              IN  pkginfo.val["depends"][i].conflict = (v # <<>> /\ v[1] = "!")

\* The line holds the separator " = " at position i.
SepAt(line, i) ==
    /\ i + 2 <= Len(line)
    /\ line[i] = " " /\ line[i + 1] = "=" /\ line[i + 2] = " "

HasSep(line) == \E i \in 1..Len(line) : SepAt(line, i)

\* Empty lines and lines beginning with '#'.
Skipped(line) == line = <<>> \/ line[1] = "#"

\* The numbers of the lines that are neither skipped nor hold " = ".
BadLines == {i \in 1..Len(lines) : ~Skipped(lines[i]) /\ ~HasSep(lines[i])}

\* The pair of a line that holds " = ": the text before the first " = "
\* as the key it spells and the text after it.
PairOfLine(line) ==
    LET at == CHOOSE i \in 1..Len(line) :
                  SepAt(line, i) /\ \A j \in 1..(i - 1) : ~SepAt(line, j)
    IN  <<KeyOf(SubSeq(line, 1, at - 1)), SubSeq(line, at + 3, Len(line))>>

\* The pairs of the lines from lno on, skipped lines left out, as the fold of
\* PkgInfo::parse collects them.
RECURSIVE PairsOfLines(_, _)
PairsOfLines(lno, acc) ==
    IF lno > Len(lines) THEN acc
    ELSE IF Skipped(lines[lno]) THEN PairsOfLines(lno + 1, acc)
    ELSE PairsOfLines(lno + 1, FoldItem(acc, PairOfLine(lines[lno])))

\* C21: empty lines and lines beginning with '#' are skipped and every other
\* line is split at its first " = "; when a line lacks " = ", the pairs
\* collected and the result of PkgInfo::parse are Syntax(n, line) for the
\* first such line, n its 1-based number among all lines of the text, and
\* nothing is decoded.
C21_SyntaxErrorFirst ==
    /\ (kpc \in {"pairs", "done"} /\ BadLines = {}) =>
          kvs.ok /\ kvs.val = PairsOfLines(1, <<>>)
    /\ (kpc \in {"pairs", "done"} /\ BadLines # {}) =>
          LET n == CHOOSE i \in BadLines : \A j \in BadLines : i <= j
          IN  /\ kvs = Err([kind |-> "Syntax", field |-> ToString(n), source |-> lines[n]])
              /\ kpc = "done" => pkginfo = kvs

\* A text whose second line lacks " = ", behind a skipped line and in front
\* of a line whose value does not decode: parse returned Syntax(2, ..).
C21_Witness ==
    /\ kpc = "done"
    /\ Len(lines) = 3
    /\ Skipped(lines[1])
    /\ BadLines = {2}
    /\ HasSep(lines[3])
    /\ ~Dependency_from_str(PairOfLine(lines[3])[2]).ok
    /\ ~pkginfo.ok
    /\ pkginfo.err.kind = "Syntax"
    /\ pkginfo.err.field = "2"

(***************************************************************************)
(* ApkbuildReader: arch                                                    *)
(***************************************************************************)
\* The elements of a sequence.
Range(v) == {v[i] : i \in 1..Len(v)}

\* C22: after arch_all(A) on a new reader an arch value of "all" or of
\* "noarch" resolves to exactly the architectures of A, and on a reader
\* arch_all was not called on to exactly those of ARCH_ALL.
C22_ArchAllReplaces ==
    /\ (cpc = "read" /\ args \in {<< <<"all">> >>, << <<"noarch">> >>}) =>
          Range(ret.val) = Range(log[1])
    /\ (cpc = "read_default" /\ args \in {<< <<"all">> >>, << <<"noarch">> >>}) =>
          Range(ret.val) = Range(ARCH_ALL)

\* What does hold: after arch_all(A) "all" and "noarch" resolve to the
\* architectures of ARCH_ALL together with those of A.
ArchAllAdds ==
    /\ (cpc = "read" /\ args \in {<< <<"all">> >>, << <<"noarch">> >>}) =>
          Range(ret.val) = Range(ARCH_ALL) \cup Range(log[1])
    /\ (cpc = "read_default" /\ args \in {<< <<"all">> >>, << <<"noarch">> >>}) =>
          Range(ret.val) = Range(ARCH_ALL)

\* The architectures the tokens accumulate, as a set: `all` and `noarch` add
\* every default architecture, `!x` removes x, any other token adds itself.
RECURSIVE ArchSetFold(_, _)
ArchSetFold(tokens, acc) ==
    IF tokens = <<>> THEN acc
    ELSE LET t == Head(tokens)
         IN  ArchSetFold(Tail(tokens),
                         IF t \in {<<"all">>, <<"noarch">>} THEN acc \cup Range(ARCH_ALL)
                         ELSE IF t[1] = "!" THEN acc \ {Tail(t)}
                         ELSE acc \cup {t})

\* C23: with the default ARCH_ALL the list parse_and_expand_arch returns
\* holds no "all", no "noarch" and no element starting with '!', is sorted
\* ascending without duplicates, and holds the architectures of the
\* left-to-right fold of the tokens.
C23_ArchExpansion ==
    cpc = "read_default" =>
        /\ \A i \in 1..Len(ret.val) :
              /\ ret.val[i] \notin {<<"all">>, <<"noarch">>}
              /\ ret.val[i][1] # "!"
        /\ \A i \in 1..(Len(ret.val) - 1) : ArchRank(ret.val[i]) < ArchRank(ret.val[i + 1])
        /\ Range(ret.val) = ArchSetFold(args, {})

\* "foo all !x86": every default architecture but x86, and foo among them.
C23_Witness ==
    /\ cpc = "read_default"
    /\ args = << <<"foo">>, <<"all">>, <<"!", "x86">> >>
    /\ Len(ret.val) = 8
    /\ ret.val[4] = <<"foo">>
    /\ <<"x86">> \notin Range(ret.val)

(***************************************************************************)
(* C24: package loading reads the segments strictly in the order           *)
(* signature, control, data.  It fails with MissingSignature when the      *)
(* first segment has no entry named .SIGN.<alg>.<keyname>, and then the    *)
(* control segment is not examined; otherwise it fails with MissingPkginfo *)
(* when the control segment has no .PKGINFO entry.  load_without_files     *)
(* never reads the data segment and returns an empty files list; load      *)
(* fills files from the data segment in archive order.                     *)
(***************************************************************************)
IsPrefix(s, t) == Len(s) <= Len(t) /\ SubSeq(t, 1, Len(s)) = s

\* The name has the form .SIGN.<alg>.<keyname>.
SignName(path) ==
    /\ Len(path) > 6
    /\ SubSeq(path, 1, 6) = <<".", "S", "I", "G", "N", ".">>
    /\ \E i \in 7..Len(path) : path[i] = "."

HasSignature(file) == \E i \in 1..Len(file[1]) : SignName(file[1][i].path)

HasPkginfo(file) == \E i \in 1..Len(file[2]) : file[2][i].path = PKGINFO

C24_LoadOrder ==
    /\ IsPrefix(log, << <<"read_signatures", 1>>, <<"read_control", 2>>, <<"read_data", 3>> >>)
    /\ args.api = "load_without_files" => Len(log) <= 2
    /\ cpc = "done" =>
         /\ ~HasSignature(args.file) => ret = Err(MissingSignature) /\ Len(log) = 1
         /\ HasSignature(args.file) /\ ~HasPkginfo(args.file) => ret = Err(MissingPkginfo)
         /\ ret.ok /\ args.api = "load_without_files" => ret.val.files = <<>>
         /\ ret.ok /\ args.api = "load" =>
              /\ Len(log) = 3
              /\ ret.val.files = [i \in 1..Len(args.file[3]) |->
                                    [path |-> <<"/">> \o args.file[3][i].path]]

C24_Witness ==
    /\ cpc = "done"
    /\ args.api = "load"
    /\ ret.ok
    /\ Len(ret.val.files) = 2
    /\ ret.val.files[1] # ret.val.files[2]
    /\ ~SignName(args.file[1][1].path)

(***************************************************************************)
(* C25: in apk-inspect, giving --pretty-print (-p) makes the JSON output   *)
(* pretty-printed and multi-line, and omitting it produces the compact     *)
(* form.                                                                   *)
(***************************************************************************)
SwitchGiven == \E i \in 1..Len(args.argv) : args.argv[i] \in {"-p", "--pretty-print"}

\* The JSON text written, without the line end that may follow it.
JsonWritten == IF log # <<>> /\ log[Len(log)] = "\n" THEN SubSeq(log, 1, Len(log) - 1) ELSE log

Dumped == cpc = "exit" /\ ret = Ok(0) /\ ~self.version

C25_PrettyPrintSwitch ==
    Dumped =>
      IF SwitchGiven
        THEN /\ JsonWritten = to_writer_pretty(args.value, 0)
             /\ \E i \in 1..Len(JsonWritten) : JsonWritten[i] = "\n"
        ELSE /\ JsonWritten = to_writer(args.value)
             /\ \A i \in 1..Len(JsonWritten) : JsonWritten[i] # "\n"

\* What the code does: the switch selects the compact form.
PrettyPrintSwitchInverted ==
    Dumped =>
      IF SwitchGiven
        THEN log = to_writer(args.value)
        ELSE log = to_writer_pretty(args.value, 0) \o <<"\n">>

(***************************************************************************)
(* C26: when two or more contiguous pairs of the stream share a key whose  *)
(* field takes one value only, no record is returned and no MissingField:  *)
(* the decode fails, from_pairs with InvalidField, and when the group is   *)
(* the first fault of the stream the error is InvalidField naming the key, *)
(* its cause being that a sequence was found where one value was expected; *)
(* neither the first nor the last value is picked.                         *)
(***************************************************************************)
ScalarOnly == FieldSet \ SeqFields

\* The position of the first pair of key k in the stream, 0 when none.
FirstOf(k) == Find({i \in 1..Len(Stream) : Stream[i][1] = k})

GivenTwice(k) ==
    \E i \in 1..(Len(Stream) - 1) : Stream[i][1] = k /\ Stream[i + 1][1] = k

\* The first pairs of key k are two or more, and what precedes them in the
\* stream is well-formed.
FirstFaultIsRun(k) ==
    /\ FirstOf(k) > 0 /\ FirstOf(k) < Len(Stream)
    /\ Stream[FirstOf(k) + 1][1] = k
    /\ WellFormed(SubSeq(Stream, 1, FirstOf(k) - 1))

C26_ScalarGivenTwice ==
    pc = "done" =>
        \A k \in ScalarOnly :
            GivenTwice(k) =>
                /\ ~result.ok
                /\ result.err.kind # "MissingField"
                /\ api = "from_pairs" => result.err.kind = "InvalidField"
                /\ FirstFaultIsRun(k) =>
                      result = Err(InvalidField(
                                 <<"invalid type", "sequence",
                                   IF Schema[k].shape = "option" THEN "option"
                                   ELSE Schema[k].elem>>, k))

\* C26 witness: f_i64 is given twice, each value a numeral, and the error
\* names f_i64.
C26_Witness ==
    /\ pc = "done"
    /\ ValuesOf("f_i64", Stream) = <<<<"7">>, <<"7">>>>
    /\ Present("vec_string", Stream)
    /\ result = Err(InvalidField(<<"invalid type", "sequence", "i64">>, "f_i64"))

(***************************************************************************)
(* C27: parse_secfixes returns an empty list when no line starts with      *)
(* "# secfixes:".  Otherwise it reads the lines that follow the first such *)
(* line and start with "#   ", up to the first that does not, without      *)
(* their " #" comments: when a `- id` line comes before any version line,  *)
(* or a line is neither an item nor ends with ':', it fails with           *)
(* MalformedSecfixes carrying the 1-based number of the first such line in *)
(* the file and its text behind the prefix; else it returns the versions   *)
(* in file order, each with its items in order.                            *)
(***************************************************************************)
SecHeader == Find({i \in 1..Len(args) : IsPrefix(SECFIXES, args[i])})

InBlock(j) ==
    /\ SecHeader > 0 /\ j > SecHeader /\ j <= Len(args)
    /\ \A h \in (SecHeader + 1)..j : IsPrefix(<<"#", " ", " ", " ">>, args[h])

BehindPrefix(j) == SubSeq(args[j], 5, Len(args[j]))

Content(j) == Trim(BeforeComment(BehindPrefix(j)))

IsItem(j) == IsPrefix(<<"-", " ">>, Content(j))

IsVersion(j) == ~IsItem(j) /\ Content(j) # <<>> /\ Content(j)[Len(Content(j))] = ":"

Malformed(j) ==
    /\ InBlock(j)
    /\ IF IsItem(j) THEN ~\E h \in (SecHeader + 1)..(j - 1) : IsVersion(h)
       ELSE ~IsVersion(j)

\* The k-th smallest number of the set.
Nth(S, k) == CHOOSE x \in S : Cardinality({y \in S : y < x}) = k - 1

VersionLines == {j \in 1..Len(args) : InBlock(j) /\ IsVersion(j)}

\* The item lines of the version at line j: those up to the next version.
ItemLines(j) ==
    {h \in 1..Len(args) :
        /\ InBlock(h) /\ IsItem(h) /\ h > j
        /\ ~\E v \in VersionLines : j < v /\ v < h}

C27_Secfixes ==
    cpc = "done" =>
        IF SecHeader = 0 THEN ret = Ok(<<>>)
        ELSE IF \E j \in 1..Len(args) : Malformed(j)
          THEN ret = Err(MalformedSecfixes(
                        Find({j \in 1..Len(args) : Malformed(j)}),
                        BehindPrefix(Find({j \in 1..Len(args) : Malformed(j)}))))
        ELSE /\ ret.ok
             /\ Len(ret.val) = Cardinality(VersionLines)
             /\ \A k \in 1..Len(ret.val) :
                  /\ ret.val[k].version =
                        SubSeq(Content(Nth(VersionLines, k)), 1,
                               Len(Content(Nth(VersionLines, k))) - 1)
                  /\ Len(ret.val[k].fixes) = Cardinality(ItemLines(Nth(VersionLines, k)))
                  /\ \A m \in 1..Len(ret.val[k].fixes) :
                        ret.val[k].fixes[m] =
                          TrimStart(SubSeq(Content(Nth(ItemLines(Nth(VersionLines, k)), m)), 3,
                                           Len(Content(Nth(ItemLines(Nth(VersionLines, k)), m)))))

\* C27 witness: a version with two items, the second indented and with a
\* comment, is returned.
C27_Witness ==
    /\ cpc = "done"
    /\ ret = Ok(<<[version |-> <<"1">>, fixes |-> <<<<"a">>, <<"b">>>>]>>)

\* A line behind the first line of the file is reported with its number.
C27_WitnessMalformed ==
    /\ cpc = "done"
    /\ ~ret.ok
    /\ ret.err.source[1] = 3

(***************************************************************************)
(* C28: decode_source_and_sha512sums returns one Source per source token,  *)
(* in source order, with (name, uri) = (a, b) for "a::b", (text after the  *)
(* last '/', token) for a token with '/', (token, token) otherwise, each   *)
(* with the checksum listed for its name; it succeeds whenever every       *)
(* source name has an entry in sha512sums, and otherwise fails with        *)
(* MissingChecksum naming the first source whose name has no entry.        *)
(***************************************************************************)
SourceTokens == split_ascii_whitespace(args.source)

ChecksumEntries == chunks_exact(split_ascii_whitespace(args.sha512sums))

\* The name and uri the claim gives a token.
ClaimedName(item) ==
    IF \E i \in 1..(Len(item) - 1) : item[i] = ":" /\ item[i + 1] = ":"
      THEN SubSeq(item, 1, Find({i \in 1..(Len(item) - 1) : item[i] = ":" /\ item[i + 1] = ":"}) - 1)
    ELSE IF \E i \in 1..Len(item) : item[i] = "/"
      THEN SubSeq(item, RFind({i \in 1..Len(item) : item[i] = "/"}) + 1, Len(item))
    ELSE item

ClaimedUri(item) ==
    IF \E i \in 1..(Len(item) - 1) : item[i] = ":" /\ item[i + 1] = ":"
      THEN SubSeq(item, Find({i \in 1..(Len(item) - 1) : item[i] = ":" /\ item[i + 1] = ":"}) + 2,
                  Len(item))
    ELSE item

Listed(name) == \E i \in 1..Len(ChecksumEntries) : ChecksumEntries[i][2] = name

ListedWith(name, checksum) ==
    \E i \in 1..Len(ChecksumEntries) : ChecksumEntries[i] = <<checksum, name>>

SourcesAsClaimed ==
    IF \A i \in 1..Len(SourceTokens) : Listed(ClaimedName(SourceTokens[i]))
      THEN /\ ret.ok
           /\ Len(ret.val) = Len(SourceTokens)
           /\ \A i \in 1..Len(SourceTokens) :
                /\ ret.val[i].name = ClaimedName(SourceTokens[i])
                /\ ret.val[i].uri = ClaimedUri(SourceTokens[i])
                /\ ListedWith(ret.val[i].name, ret.val[i].checksum)
      ELSE ret = Err(MissingChecksum(ClaimedName(SourceTokens[
                     Find({i \in 1..Len(SourceTokens) : ~Listed(ClaimedName(SourceTokens[i]))})])))

C28_SourcesAndChecksums == cpc = "done" => SourcesAsClaimed

\* The names of the source tokens differ from each other.
DistinctNames ==
    \A i, j \in 1..Len(SourceTokens) :
        ClaimedName(SourceTokens[i]) = ClaimedName(SourceTokens[j]) => i = j

\* What the code does: the claim holds when no two sources share a name,
\* and a second source of a name fails although the name is listed.
SourcesOfDistinctNames ==
    cpc = "done" =>
        /\ DistinctNames => SourcesAsClaimed
        /\ (~DistinctNames /\ \A i \in 1..Len(SourceTokens) : Listed(ClaimedName(SourceTokens[i])))
              => ~ret.ok

(***************************************************************************)
(* C29: after any sequence of add and remove calls on a Dependencies       *)
(* collection, is_empty() holds exactly when len() is 0; add(d) increases  *)
(* len() by one and appends d at the end; remove(d) returns true exactly   *)
(* if an element equal to d was present, removes every element equal to d  *)
(* and leaves the other elements in their relative order.                  *)
(***************************************************************************)
\* The elements of v that differ from x, in their order.
Others(v, x) == LET Differs(y) == y # x IN SelectSeq(v, Differs)

C29_Collection ==
    /\ Dependencies_is_empty(self) <=> (Dependencies_len(self) = 0)
    /\ cpc = "is_empty" => ret = Ok(Len(self) = 0)
    /\ cpc = "len" => ret = Ok(Len(self))
    /\ cpc = "add" =>
         /\ Dependencies_len(self) = Dependencies_len(log) + 1
         /\ self[Len(self)] = args
         /\ SubSeq(self, 1, Len(log)) = log
    /\ cpc = "remove" =>
         /\ ret = Ok(\E i \in 1..Len(log) : log[i] = args)
         /\ \A i \in 1..Len(self) : self[i] # args
         /\ self = Others(log, args)

\* C29 witness: remove(d) has returned true for a collection that held d
\* twice, with another element between them that is still there.
C29_Witness ==
    /\ cpc = "remove"
    /\ ret = Ok(TRUE)
    /\ Len(log) = 3 /\ log[1] = args /\ log[3] = args /\ log[2] # args
    /\ self = <<log[2]>>

(***************************************************************************)
(* C30: errors are reported in stream order and missing fields last.  If   *)
(* the value of a present pair is malformed and a required field is        *)
(* absent, the decode returns InvalidField for the first malformed key     *)
(* group in the order the pairs are consumed (sorted key order for         *)
(* from_pairs); MissingField is returned only when every present pair      *)
(* decoded successfully.                                                   *)
(***************************************************************************)
\* The key group of the stream the pair at position i lies in: the longest
\* run of pairs with its key around it.
RunStart(i) ==
    CHOOSE j \in 1..i :
        /\ \A h \in j..i : Stream[h][1] = Stream[i][1]
        /\ j = 1 \/ Stream[j - 1][1] # Stream[i][1]

RunEnd(i) ==
    CHOOSE j \in i..Len(Stream) :
        /\ \A h \in i..j : Stream[h][1] = Stream[i][1]
        /\ j = Len(Stream) \/ Stream[j + 1][1] # Stream[i][1]

RunValues(i) == [h \in 1..(RunEnd(i) - RunStart(i) + 1) |-> Stream[RunStart(i) + h - 1][2]]

MalformedAt(i) ==
    /\ Stream[i][1] \in FieldSet
    /\ ~WellFormedGroup(Stream[i][1], RunValues(i))

FirstMalformed == Find({i \in 1..Len(Stream) : MalformedAt(i)})

RequiredAbsent == \E f \in FieldSet : Required(f) /\ ~Present(f, Stream)

C30_ErrorOrder ==
    pc = "done" =>
        /\ (FirstMalformed > 0 /\ RequiredAbsent) =>
              result = Err(InvalidField(Cause(Stream[FirstMalformed][1],
                                              RunValues(FirstMalformed)),
                                        Stream[FirstMalformed][1]))
        /\ (~result.ok /\ result.err.kind = "MissingField") => FirstMalformed = 0

\* A key of the record comes back, behind another key, in front of the
\* first malformed group or in it.
RecursBeforeMalformed ==
    \E i, j \in 1..(RunStart(FirstMalformed)) :
        /\ i < j /\ Stream[i][1] = Stream[j][1] /\ Stream[i][1] \in FieldSet
        /\ \E h \in i..j : Stream[h][1] # Stream[i][1]

\* What the code does: the claim holds for from_pairs, and for
\* from_ordered_pairs unless a key comes back before the malformed group is
\* read, which ends the decode with the visitor's duplicate field error.
ErrorOrderUnlessDuplicate ==
    pc = "done" =>
        /\ (FirstMalformed > 0 /\ RequiredAbsent) =>
              IF RecursBeforeMalformed
                THEN api = "from_ordered_pairs" /\ ~result.ok /\ result.err.kind = "Other"
                ELSE result = Err(InvalidField(Cause(Stream[FirstMalformed][1],
                                                     RunValues(FirstMalformed)),
                                               Stream[FirstMalformed][1]))
        /\ (~result.ok /\ result.err.kind = "MissingField") => FirstMalformed = 0

====
